---- MODULE Spec2Model ----
(***************************************************************************)
(* Model of the chat response pipeline of the backend:                     *)
(*   InputAnalyzer.analyze_input -> WorkflowDecider.decide_workflow ->     *)
(*   ParentAgent.process (QuickResponder / ArtifactConstructor / table /   *)
(*   card builders / ArtifactSummaryProvider) ->                           *)
(*   ResponseStructurer.structure_response,                                *)
(* as sequenced by routers/chat_router.py get_chat_response between the    *)
(* commit of the user's message and the commit of the assistant's, and of  *)
(* JSONHandler.extract_clean_json.  SpecCancel adds the cancellation of    *)
(* the request at an await, SpecConcurrent a second invocation that        *)
(* interleaves with the first.  SpecWebhook follows the deliveries of one  *)
(* Gmail notification through gmail_webhook, SpecTokens the OAuth tokens   *)
(* of TokenManager, SpecPlatform the platform of a conversation across     *)
(* web and Gmail requests, SpecTitle TitleGenerator.generate_unique_title. *)
(*                                                                         *)
(* A completion text is a sequence of tokens.  A Python value is a pair    *)
(* <<kind, payload>> of strings; a dict built by the code is a function    *)
(* from the key names to such pairs, ABSENT marking a key that is not set. *)
(***************************************************************************)
EXTENDS Integers, Sequences, FiniteSets, TLC

----------------------------------------------------------------------------
(* Bounds *)

\* longest completion text given to extract_clean_json in SpecExtract
MaxLen == 4

----------------------------------------------------------------------------
(* Tokens of a completion text *)

\* "key": value members of a JSON object, one token each
PairTokens ==
    { "an=plain", "an=chart",
      "ra=T", "ra=F", "sa=P", "sa=X",
      "ct=Chart", "ct=Table", "ct=Card", "ct=Text", "ct=Graph",
      "sub=bar", "sub=scatter", "sub=empty", "sub=null",
      "title", "title=F", "style", "labels", "type=pie",
      "data=dict_values", "data=dict", "data=num", "data=str",
      "headers", "rows",
      "metrics=ok", "metrics=nolabel", "metrics=num",
      "summary", "footer" }

\* "title=F" is the member "title" with a ``` inside its string value.
\* "{" "}" "," JSON punctuation; "F" the fence ```; "J" the fence ```json;
\* "w" whitespace; "p" prose without braces; "A" a JSON value that is not an
\* object (an array, a string, a number)
Tokens == PairTokens \cup {"{", "}", ",", "F", "J", "w", "p", "A"}

\* the key a member token sets
PairKey(t) ==
    CASE t \in {"an=plain", "an=chart"} -> "analysis"
      [] t \in {"ra=T", "ra=F"} -> "requires_artifact"
      [] t \in {"sa=P", "sa=X"} -> "selected_agent"
      [] t \in {"ct=Chart", "ct=Table", "ct=Card", "ct=Text", "ct=Graph"} -> "component_type"
      [] t \in {"sub=bar", "sub=scatter", "sub=empty", "sub=null"} -> "chart_type"
      [] t = "type=pie" -> "type"
      [] t = "title=F" -> "title"
      [] t \in {"data=dict_values", "data=dict", "data=num", "data=str"} -> "data"
      [] t \in {"metrics=ok", "metrics=nolabel", "metrics=num"} -> "metrics"
      [] OTHER -> t

\* the Python value json.loads gives the member: <<kind, payload>>
PairVal(t) ==
    CASE t = "an=plain" -> <<"str", "greeting">>
      [] t = "an=chart" -> <<"str", "chart of sales">>
      [] t = "ra=T" -> <<"bool", "true">>
      [] t = "ra=F" -> <<"bool", "false">>
      [] t = "sa=P" -> <<"str", "ParentAgent">>
      [] t = "sa=X" -> <<"str", "AgenticWorkflowAgent">>
      [] t = "ct=Chart" -> <<"str", "Chart">>
      [] t = "ct=Table" -> <<"str", "Table">>
      [] t = "ct=Card" -> <<"str", "Card">>
      [] t = "ct=Text" -> <<"str", "Text">>
      [] t = "ct=Graph" -> <<"str", "Graph">>
      [] t = "sub=bar" -> <<"str", "bar">>
      [] t = "sub=scatter" -> <<"str", "scatter">>
      [] t = "sub=empty" -> <<"str", "">>
      [] t = "sub=null" -> <<"none", "">>
      [] t = "type=pie" -> <<"str", "pie">>
      [] t = "title=F" -> <<"str", "gpt:[fence]title">>
      [] t = "data=dict_values" -> <<"dict_values", "gpt:values">>
      [] t = "data=dict" -> <<"dict", "gpt:data">>
      [] t = "data=num" -> <<"num", "gpt:data">>
      [] t = "data=str" -> <<"str", "gpt:data">>
      [] t = "metrics=ok" -> <<"list", "gpt:metrics">>
      [] t = "metrics=nolabel" -> <<"list", "gpt:metrics-nolabel">>
      [] t = "metrics=num" -> <<"num", "gpt:metrics">>
      [] t \in {"labels", "headers", "rows"} -> <<"list", "gpt:" \o t>>
      [] t = "style" -> <<"dict", "gpt:style">>
      [] OTHER -> <<"str", "gpt:" \o t>>

----------------------------------------------------------------------------
(* Python values *)

ABSENT == <<"absent", "">>
NONE == <<"none", "">>
Str(s) == <<"str", s>>

\* Python truthiness of a value
Truthy(v) ==
    /\ v[1] \notin {"absent", "none"}
    /\ v # <<"bool", "false">>
    /\ v # <<"str", "">>

----------------------------------------------------------------------------
(* String helpers on token sequences *)

\* str.find / str.rfind, 1-based; 0 stands for Python's -1
Find(s, t) ==
    IF \E i \in 1..Len(s) : s[i] = t
    THEN CHOOSE i \in 1..Len(s) : s[i] = t /\ \A j \in 1..(i-1) : s[j] # t
    ELSE 0

RFind(s, t) ==
    IF \E i \in 1..Len(s) : s[i] = t
    THEN CHOOSE i \in 1..Len(s) : s[i] = t /\ \A j \in (i+1)..Len(s) : s[j] # t
    ELSE 0

\* str.strip(): drops leading and trailing whitespace
Strip(s) ==
    LET nonws == {i \in 1..Len(s) : s[i] # "w"}
    IN IF nonws = {} THEN <<>>
       ELSE SubSeq(s, CHOOSE i \in nonws : \A j \in nonws : i <= j,
                      CHOOSE i \in nonws : \A j \in nonws : i >= j)

IsNotJsonFence(t) == t # "J"
IsNotFence(t) == t # "F"
IsNotWs(t) == t # "w"

\* the member with the ``` inside its string value removed
Unfenced(t) == IF t = "title=F" THEN "title" ELSE t

\* response.replace('```json', '').replace('```', ''): every occurrence goes,
\* those inside a string value of the JSON text included
RemoveFences(s) ==
    LET r == SelectSeq(SelectSeq(s, IsNotJsonFence), IsNotFence)
    IN [i \in 1..Len(r) |-> Unfenced(r[i])]

----------------------------------------------------------------------------
(* json.loads *)

RECURSIVE PairList(_)
\* member (, member)* between the braces, whitespace already dropped
PairList(m) ==
    /\ Len(m) >= 1
    /\ m[1] \in PairTokens
    /\ \/ Len(m) = 1
       \/ /\ Len(m) >= 3
          /\ m[2] = ","
          /\ PairList(SubSeq(m, 3, Len(m)))

\* the text is one JSON object (whitespace allowed between tokens)
IsObject(s) ==
    LET c == SelectSeq(s, IsNotWs)
    IN /\ Len(c) >= 2
       /\ c[1] = "{"
       /\ c[Len(c)] = "}"
       /\ \/ Len(c) = 2
          \/ PairList(SubSeq(c, 2, Len(c) - 1))

\* json.loads(s): kind "object" with the members in order, kind "nonobject"
\* for any other JSON value, kind "error" for json.JSONDecodeError
JsonLoads(s) ==
    IF IsObject(s)
    THEN [kind |-> "object", val |-> SelectSeq(s, IsNotWs)]
    ELSE IF Strip(s) = <<"A">>
         THEN [kind |-> "nonobject", val |-> <<>>]
         ELSE [kind |-> "error", val |-> <<>>]

\* the empty dict {}
EmptyObject == <<"{", "}">>

\* dict.get(key, default) on a parsed object: the last member with the key wins
Get(obj, key, default) ==
    LET idx == {i \in 1..Len(obj) : obj[i] \in PairTokens /\ PairKey(obj[i]) = key}
    IN IF idx = {} THEN default
       ELSE PairVal(obj[CHOOSE i \in idx : \A j \in idx : i >= j])

----------------------------------------------------------------------------
(* JSONHandler.extract_clean_json *)

\* the body of the try block: the parsed object, or "raise" for any exception
ExtractTry(response) ==
    LET cleaned == Strip(RemoveFences(response))
        start_idx == Find(cleaned, "{")
        end_idx == RFind(cleaned, "}")
    IN IF start_idx # 0 /\ end_idx > 0
       THEN LET parsed == JsonLoads(SubSeq(cleaned, start_idx, end_idx))
            IN IF parsed.kind = "error" THEN [raised |-> TRUE, val |-> <<>>]
               ELSE [raised |-> FALSE, val |-> parsed.val]
       ELSE [raised |-> TRUE, val |-> <<>>]

\* extract_clean_json without its except clause: the exception escapes
extract_clean_json_nocatch(response) == ExtractTry(response)

\* extract_clean_json: except Exception -> return {}
extract_clean_json(response) ==
    LET r == ExtractTry(response)
    IN IF r.raised THEN [raised |-> FALSE, val |-> EmptyObject]
       ELSE r

----------------------------------------------------------------------------
(* Dicts built by the agents *)

Keys ==
    { "type", "title", "style", "labels", "data", "headers", "rows",
      "metrics", "summary", "footer", "values", "axis_labels", "config" }

\* the dict with the members of f and no other key
Dict(f) == [k \in Keys |-> IF k \in DOMAIN f THEN f[k] ELSE ABSENT]

EmptyDict == [k \in Keys |-> ABSENT]
\* Python None where a dict is expected
NoneData == [k \in Keys |-> NONE]
\* the key "data" is not in the record at all
MissingData == [k \in Keys |-> <<"missing", "">>]

\* dict.get(key, default) on a dict built by the code
DGet(d, k, default) == IF d[k] = ABSENT THEN default ELSE d[k]

\* the keys a dict holds
KeysOf(d) == {k \in Keys : d[k] # ABSENT}

----------------------------------------------------------------------------
(* GPTService.get_chat_response *)

Stages ==
    { "analyze", "decide", "intro", "select", "chart", "table", "card",
      "summary", "quick", "direct", "content" }

\* str.strip() on the prose a completion carries
StrStrip(s) ==
    IF s = " " THEN ""
    ELSE IF \E st \in Stages : s = " " \o st \o " "
         THEN CHOOSE st \in Stages : s = " " \o st \o " "
         ELSE s

\* the raw message contents the completion service may send for a prose stage
RawContents(stage) == {"", " ", stage, " " \o stage \o " "}

\* the message content handed on without .strip()
ChatContent_unstripped(raw) == Str(raw)

\* result["choices"][0]["message"]["content"].strip() for a prose completion
ChatContent(raw) == Str(StrStrip(raw))

\* the same for a completion that is read as JSON
ChatText(raw) == Strip(raw)

\* raw contents for InputAnalyzer.analyze_input
AnalyzeTexts ==
    { <<"{", "an=plain", "}">>,
      <<"J", "{", "an=chart", "}", "F">>,
      <<"{", "}">>,
      <<"p">> }

\* raw contents for decide_workflow
DecideTexts ==
    { <<"{", "ra=T", "}">>,
      <<"{", "ra=F", "}">>,
      <<"{", "ra=T", ",", "sa=X", "}">>,
      <<"{", "ra=F", ",", "ra=T", ",", "sa=P", "}">>,
      <<"J", "w", "{", "w", "ra=T", "w", "}", "w", "F">>,
      <<"p", "w", "{", "ra=T", "}", "w", "p">>,
      <<"{", "F", "ra=T", "}">>,
      <<"{", "}">>,
      <<"p">>,
      <<"A">>,
      <<"{", "ra=T", "p", "}">>,
      <<"}", "ra=T", "{">>,
      <<"{", "ra=T", "}", "{", "sa=X", "}">> }

\* raw contents for the component decision of ParentAgent.process
SelectTexts ==
    { <<"{", "ct=Chart", ",", "sub=bar", "}">>,
      <<"{", "ct=Chart", ",", "sub=scatter", "}">>,
      <<"{", "ct=Chart", "}">>,
      <<"{", "ct=Chart", ",", "sub=empty", "}">>,
      <<"{", "ct=Chart", ",", "sub=null", "}">>,
      <<"{", "ct=Table", "}">>,
      <<"{", "ct=Table", ",", "sub=bar", "}">>,
      <<"{", "ct=Card", "}">>,
      <<"{", "ct=Text", "}">>,
      <<"{", "ct=Graph", ",", "sub=bar", "}">>,
      <<"{", "sub=bar", "}">>,
      <<"w", "{", "w", "ct=Card", "w", "}", "w">>,
      <<"J", "{", "ct=Chart", ",", "sub=bar", "}", "F">>,
      <<"p">>,
      <<"A">> }

\* raw contents for ArtifactConstructor.construct_artifact
ChartTexts ==
    { <<"{", "title", ",", "style", ",", "labels", ",", "data=dict_values", "}">>,
      <<"{", "title", ",", "labels", ",", "data=dict_values", ",", "type=pie", "}">>,
      <<"{", "title", "}">>,
      <<"{", "}">>,
      <<"{", "data=dict", "}">>,
      <<"{", "data=num", "}">>,
      <<"{", "data=str", "}">>,
      <<"J", "{", "title", "}", "F">>,
      <<"p">>,
      <<"A">> }

\* raw contents for ParentAgent.construct_table_artifact
TableTexts ==
    { <<"{", "title", ",", "headers", ",", "rows", "}">>,
      <<"{", "headers", "}">>,
      <<"{", "}">>,
      <<"J", "w", "{", "title", ",", "headers", ",", "rows", "}", "w", "F">>,
      <<"p", "{", "title", "}">>,
      <<"p">>,
      <<"A">> }

\* raw contents for ParentAgent.construct_card_artifact
CardTexts ==
    { <<"{", "title", ",", "metrics=ok", ",", "summary", ",", "footer", "}">>,
      <<"{", "metrics=ok", "}">>,
      <<"{", "}">>,
      <<"F", "{", "title", ",", "metrics=ok", "}", "F">>,
      <<"{", "metrics=nolabel", "}">>,
      <<"{", "metrics=num", "}">>,
      <<"p">>,
      <<"A">> }

----------------------------------------------------------------------------
(* WorkflowDecider.decide_workflow, after its completion call *)

\* the analysis texts of the model in which one of the query_indicators occurs
IndicatorTexts == {"chart of sales"}

\* any(indicator in metadata.get("analysis", "").lower() for indicator in ...)
HasIndicator(analysis) ==
    IF analysis[1] = "str" /\ analysis[2] \in IndicatorTexts
    THEN <<"bool", "true">> ELSE <<"bool", "false">>

\* decision_metadata built from the completion text and the input metadata;
\* the except branch is taken when extract_clean_json raises
decide_workflow(gpt_response, analysis) ==
    LET r == extract_clean_json(gpt_response)
        decision_data == r.val
    IN [ selected_agent |->
           IF r.raised THEN Str("ParentAgent")
           ELSE Get(decision_data, "selected_agent", Str("ParentAgent")),
         analysis |-> IF analysis = ABSENT THEN Str("No analysis available") ELSE analysis,
         artifact_creation |->
           IF r.raised THEN HasIndicator(analysis)
           ELSE Get(decision_data, "requires_artifact", <<"bool", "false">>) ]

----------------------------------------------------------------------------
(* ParentAgent.process: the component decision *)

\* the decision without the "Table" defaults: no component type is chosen when
\* the completion names none
ComponentDecision_no_default(response) ==
    LET parsed == JsonLoads(response)
        ct == Get(parsed.val, "component_type", NONE)
    IN CASE parsed.kind = "error" ->
              [raised |-> FALSE, component_type |-> NONE, chart_type |-> NONE]
         [] parsed.kind = "nonobject" ->
              [raised |-> TRUE, component_type |-> NONE, chart_type |-> NONE]
         [] OTHER ->
              [raised |-> FALSE, component_type |-> ct,
               chart_type |-> IF ct = Str("Chart")
                              THEN Get(parsed.val, "chart_type", NONE) ELSE NONE]

\* try: json.loads + .get; except json.JSONDecodeError: Table.  A JSON value
\* that is no dict has no .get: AttributeError, which the except does not name
ComponentDecision(response) ==
    LET parsed == JsonLoads(response)
        ct == Get(parsed.val, "component_type", Str("Table"))
    IN CASE parsed.kind = "error" ->
              [raised |-> FALSE, component_type |-> Str("Table"), chart_type |-> NONE]
         [] parsed.kind = "nonobject" ->
              [raised |-> TRUE, component_type |-> NONE, chart_type |-> NONE]
         [] OTHER ->
              [raised |-> FALSE, component_type |-> ct,
               chart_type |-> IF ct = Str("Chart")
                              THEN Get(parsed.val, "chart_type", NONE) ELSE NONE]

\* the chain without "and chart_type": a Chart with no subtype is built
Dispatch_chart_any(component_type, chart_type) ==
    IF component_type = Str("Chart") THEN "chart"
    ELSE IF component_type = Str("Table") THEN "table"
    ELSE IF component_type = Str("Card") THEN "card"
    ELSE "quick"

\* the chain ending in the table builder instead of QuickResponder
Dispatch_default_table(component_type, chart_type) ==
    IF component_type = Str("Chart") /\ Truthy(chart_type) THEN "chart"
    ELSE IF component_type = Str("Card") THEN "card"
    ELSE "table"

\* the if / elif chain that picks the builder, else QuickResponder
Dispatch(component_type, chart_type) ==
    IF component_type = Str("Chart") /\ Truthy(chart_type) THEN "chart"
    ELSE IF component_type = Str("Table") THEN "table"
    ELSE IF component_type = Str("Card") THEN "card"
    ELSE "quick"

----------------------------------------------------------------------------
(* The records ParentAgent.process returns *)

Response(content, has_artifact, component_type, data, summary) ==
    [ content |-> content, has_artifact |-> has_artifact,
      component_type |-> component_type, data |-> data, summary |-> summary ]

NoResponse == Response(ABSENT, FALSE, ABSENT, MissingData, ABSENT)

\* QuickResponder.respond returning "data": {} instead of None
QuickResponse_emptydata(gpt_response) ==
    Response(Str(StrStrip(gpt_response[2])), FALSE, NONE, EmptyDict, NONE)

\* QuickResponder.respond, after its completion call
QuickResponse(gpt_response) ==
    Response(Str(StrStrip(gpt_response[2])), FALSE, NONE, NoneData, NONE)

\* _generate_fallback_artifact returning a payload without labels and data
generate_fallback_artifact_bare(component_type, chart_type) ==
    Response(ABSENT, TRUE, component_type,
             Dict( "type" :> chart_type
                @@ "title" :> Str("fallback:title")
                @@ "style" :> <<"dict", "default:style">> ),
             ABSENT)

\* ArtifactConstructor._generate_fallback_artifact
generate_fallback_artifact(component_type, chart_type) ==
    Response(ABSENT, TRUE, component_type,
             Dict( "type" :> chart_type
                @@ "title" :> Str("fallback:title")
                @@ "style" :> <<"dict", "default:style">>
                @@ "labels" :> <<"list", "fallback:labels">>
                @@ "data" :> <<"dict_values", "fallback:values">> ),
             ABSENT)

\* ArtifactConstructor.construct_artifact; out is the completion call's outcome.
\* The whole body is inside try / except Exception
construct_artifact(component_type, chart_type, out) ==
    LET parsed == JsonLoads(out.text)
        artifact_data == parsed.val
    IN IF out.raised \/ parsed.kind # "object"
       THEN generate_fallback_artifact(component_type, chart_type)
       ELSE Response(ABSENT, TRUE, component_type,
                Dict( "type" :> chart_type
                   @@ "title" :> Get(artifact_data, "title", Str("Generated Chart"))
                   @@ "style" :> Get(artifact_data, "style", <<"dict", "default:style">>)
                   @@ "labels" :> Get(artifact_data, "labels", <<"list", "default:labels">>)
                   @@ "data" :> Get(artifact_data, "data", <<"dict_values", "default:values">>) ),
                ABSENT)

\* generate_fallback_table reporting the failure: has_artifact False
generate_fallback_table_failed ==
    Response(ABSENT, FALSE, Str("Table"),
             Dict( "type" :> Str("table")
                @@ "title" :> Str("Data Summary")
                @@ "headers" :> <<"list", "fallback:headers">>
                @@ "rows" :> <<"list", "fallback:rows">>
                @@ "labels" :> <<"list", "fallback:headers">>
                @@ "data" :> <<"dict_values", "fallback:rows">> ),
             ABSENT)

\* ParentAgent.generate_fallback_table
generate_fallback_table ==
    Response(ABSENT, TRUE, Str("Table"),
             Dict( "type" :> Str("table")
                @@ "title" :> Str("Data Summary")
                @@ "headers" :> <<"list", "fallback:headers">>
                @@ "rows" :> <<"list", "fallback:rows">>
                @@ "labels" :> <<"list", "fallback:headers">>
                @@ "data" :> <<"dict_values", "fallback:rows">> ),
             ABSENT)

\* ParentAgent.construct_table_artifact, after its completion call: only
\* json.JSONDecodeError is caught, so .get on a non-dict raises AttributeError
construct_table_artifact(response) ==
    LET parsed == JsonLoads(Strip(RemoveFences(response)))
        table_data == parsed.val
        headers == Get(table_data, "headers", <<"list", "[]">>)
        rows == Get(table_data, "rows", <<"list", "[]">>)
    IN CASE parsed.kind = "error" -> [raised |-> FALSE, result |-> generate_fallback_table]
         [] parsed.kind = "nonobject" -> [raised |-> TRUE, result |-> NoResponse]
         [] OTHER ->
              [raised |-> FALSE,
               result |-> Response(ABSENT, TRUE, Str("Table"),
                   Dict( "type" :> Str("table")
                      @@ "title" :> Get(table_data, "title", Str("Data Table"))
                      @@ "headers" :> headers
                      @@ "rows" :> rows
                      @@ "labels" :> headers
                      @@ "data" :> <<"dict_values", rows[2]>> ),
                   ABSENT)]

\* generate_fallback_card losing the selected component type
generate_fallback_card_untyped ==
    Response(ABSENT, TRUE, NONE,
             Dict( "type" :> Str("card")
                @@ "title" :> Str("Summary Card")
                @@ "metrics" :> <<"list", "fallback:metrics">>
                @@ "summary" :> Str("Failed to generate card content")
                @@ "footer" :> Str("Please try again or contact support")
                @@ "labels" :> <<"list", "fallback:metric-labels">>
                @@ "data" :> <<"dict_values", "fallback:metric-values">> ),
             ABSENT)

\* ParentAgent.generate_fallback_card
generate_fallback_card ==
    Response(ABSENT, TRUE, Str("Card"),
             Dict( "type" :> Str("card")
                @@ "title" :> Str("Summary Card")
                @@ "metrics" :> <<"list", "fallback:metrics">>
                @@ "summary" :> Str("Failed to generate card content")
                @@ "footer" :> Str("Please try again or contact support")
                @@ "labels" :> <<"list", "fallback:metric-labels">>
                @@ "data" :> <<"dict_values", "fallback:metric-values">> ),
             ABSENT)

\* ParentAgent.construct_card_artifact; out is the completion call's outcome.
\* The whole body is inside try / except Exception; metric["label"] fails on a
\* metrics value that is no list of dicts with label and value
construct_card_artifact(out) ==
    LET parsed == JsonLoads(Strip(RemoveFences(out.text)))
        card_data == parsed.val
        metrics == Get(card_data, "metrics", <<"list", "[]">>)
    IN IF \/ out.raised
          \/ parsed.kind # "object"
          \/ metrics \notin {<<"list", "[]">>, <<"list", "gpt:metrics">>}
       THEN generate_fallback_card
       ELSE Response(ABSENT, TRUE, Str("Card"),
                Dict( "type" :> Str("card")
                   @@ "title" :> Get(card_data, "title", Str("Metric Summary"))
                   @@ "metrics" :> metrics
                   @@ "summary" :> Get(card_data, "summary", Str("No summary available"))
                   @@ "footer" :> Get(card_data, "footer", Str(""))
                   @@ "labels" :> <<"list", "labels-of:" \o metrics[2]>>
                   @@ "data" :> <<"dict_values", "values-of:" \o metrics[2]>> ),
                ABSENT)

----------------------------------------------------------------------------
(* ResponseStructurer *)

Structured(content, has_artifact, component_type, sub_type, data, summary) ==
    [ content |-> content, has_artifact |-> has_artifact,
      component_type |-> component_type, sub_type |-> sub_type,
      data |-> data, summary |-> summary ]

NoStructured == Structured(ABSENT, FALSE, ABSENT, ABSENT, MissingData, ABSENT)

\* ResponseStructurer._generate_fallback_response
generate_fallback_response ==
    Structured(Str("Unable to generate structured response"), FALSE,
               NONE, NONE, NoneData, NONE)

\* "values" in x raises TypeError when x is no container
InRaises(x) == x[1] \in {"num", "none", "bool"}

\* _extract_values without the nested data.values branch
extract_values_flat(artifact_data) ==
    IF artifact_data["values"] # ABSENT
    THEN [raised |-> FALSE, val |-> artifact_data["values"]]
    ELSE IF artifact_data["rows"] # ABSENT
         THEN [raised |-> FALSE, val |-> artifact_data["rows"]]
    ELSE [raised |-> FALSE, val |-> <<"list", "[]">>]

\* ResponseStructurer._extract_values
extract_values(artifact_data) ==
    LET d == artifact_data["data"]
    IN IF d # ABSENT /\ InRaises(d) THEN [raised |-> TRUE, val |-> NONE]
       ELSE IF d # ABSENT /\ d[1] = "dict_values"
            THEN [raised |-> FALSE, val |-> <<"list", d[2]>>]
       ELSE IF artifact_data["values"] # ABSENT
            THEN [raised |-> FALSE, val |-> artifact_data["values"]]
       ELSE IF artifact_data["rows"] # ABSENT
            THEN [raised |-> FALSE, val |-> artifact_data["rows"]]
       ELSE [raised |-> FALSE, val |-> <<"list", "[]">>]

\* ResponseStructurer._process_component_specific_data: response["data"].update
process_component_specific_data(data, component_type, artifact_data) ==
    LET upd ==
          CASE component_type = Str("Table") ->
                 ( "headers" :> DGet(artifact_data, "headers", <<"list", "[]">>)
                @@ "rows" :> DGet(artifact_data, "rows", <<"list", "[]">>)
                @@ "title" :> DGet(artifact_data, "title", Str("Data Table")) )
            [] component_type = Str("Chart") ->
                 ( "title" :> DGet(artifact_data, "title", Str("Chart"))
                @@ "axis_labels" :> <<"dict", "axis_labels">>
                @@ "config" :> <<"dict", "config">> )
            [] component_type = Str("Card") ->
                 ( "title" :> DGet(artifact_data, "title", Str("Metric Card"))
                @@ "metrics" :> DGet(artifact_data, "metrics", <<"list", "[]">>)
                @@ "footer" :> DGet(artifact_data, "footer", Str("")) )
            [] OTHER -> << >>
    IN [k \in Keys |-> IF k \in DOMAIN upd THEN upd[k] ELSE data[k]]

\* sub_type without the guard on the component type
SubType_unguarded(component_type, artifact_data) ==
    DGet(artifact_data, "type", NONE)

\* structure_response: "sub_type": artifact_data.get("type") if Chart else None
SubType(component_type, artifact_data) ==
    IF component_type = Str("Chart") THEN DGet(artifact_data, "type", NONE)
    ELSE NONE

\* generating content whenever none exists, artifact or not
NeedsContent_any(parent_metadata) == ~Truthy(parent_metadata.content)

\* structure_response issues its own completion call for the content
NeedsContent(parent_metadata) ==
    ~Truthy(parent_metadata.content) /\ parent_metadata.has_artifact

\* structure_response building "data" without "if has_artifact else None"
structure_response_keeps_data(parent_metadata, out) ==
    LET has_artifact == parent_metadata.has_artifact
        content == IF NeedsContent(parent_metadata) THEN out.text
                   ELSE parent_metadata.content
        summary == IF parent_metadata.summary = ABSENT THEN NONE
                   ELSE parent_metadata.summary
        component_type == IF has_artifact /\ parent_metadata.component_type # ABSENT
                          THEN parent_metadata.component_type ELSE NONE
        artifact_data == IF parent_metadata.data = MissingData THEN EmptyDict
                         ELSE parent_metadata.data
        values == extract_values(artifact_data)
        data == Dict( "labels" :> DGet(artifact_data, "labels", <<"list", "[]">>)
                   @@ "values" :> values.val
                   @@ "style" :> DGet(artifact_data, "style", <<"dict", "default:style">>) )
    IN IF \/ NeedsContent(parent_metadata) /\ out.raised
          \/ artifact_data = NoneData
          \/ values.raised
       THEN generate_fallback_response
       ELSE Structured(
              IF Truthy(content) THEN Str(StrStrip(content[2]))
              ELSE Str("Let me help you visualize this data."),
              has_artifact,
              component_type,
              SubType(component_type, artifact_data),
              IF has_artifact
              THEN process_component_specific_data(data, component_type, artifact_data)
              ELSE data,
              IF has_artifact THEN summary ELSE NONE)

\* ResponseStructurer.structure_response; out is the outcome of the content
\* completion call, looked at only when NeedsContent.  The whole body is inside
\* try / except Exception -> _generate_fallback_response
structure_response(parent_metadata, out) ==
    LET has_artifact == parent_metadata.has_artifact
        content == IF NeedsContent(parent_metadata) THEN out.text
                   ELSE parent_metadata.content
        summary == IF parent_metadata.summary = ABSENT THEN NONE
                   ELSE parent_metadata.summary
        component_type == IF has_artifact /\ parent_metadata.component_type # ABSENT
                          THEN parent_metadata.component_type ELSE NONE
        artifact_data == IF parent_metadata.data = MissingData THEN EmptyDict
                         ELSE parent_metadata.data
        values == extract_values(artifact_data)
        data == Dict( "labels" :> DGet(artifact_data, "labels", <<"list", "[]">>)
                   @@ "values" :> values.val
                   @@ "style" :> DGet(artifact_data, "style", <<"dict", "default:style">>) )
    IN IF \/ NeedsContent(parent_metadata) /\ out.raised
          \/ has_artifact /\ (artifact_data = NoneData \/ values.raised)
       THEN generate_fallback_response
       ELSE Structured(
              IF Truthy(content) THEN Str(StrStrip(content[2]))
              ELSE Str("Let me help you visualize this data."),
              has_artifact,
              component_type,
              SubType(component_type, artifact_data),
              IF has_artifact
              THEN process_component_specific_data(data, component_type, artifact_data)
              ELSE NoneData,
              IF has_artifact THEN summary ELSE NONE)

----------------------------------------------------------------------------
(* State *)

VARIABLES
    pc,                  \* where get_chat_response stands
    metadata_analysis,   \* analysis_result["metadata"]["analysis"]
    decision_metadata,   \* what decide_workflow returned
    intro_content,       \* ParentAgent.process: intro_content
    component_type,      \* ParentAgent.process: component_type
    chart_type,          \* ParentAgent.process: chart_type
    build_parse,         \* what the builder's completion text parsed to
    parent_response,     \* parent_response_metadata / artifact_response
    structured_response, \* what structure_response returned
    calls,               \* the completion calls issued so far:
                         \* <<stage, "ok" or "failed", the text returned>>
    error,               \* the exception that left the pipeline, "" if none
    messages,            \* the Message rows committed to the database
    artifacts,           \* the Artifact rows committed to the database
    response_data,       \* get_chat_response: what the endpoint returns
    other,               \* the locals of a second invocation of get_chat_response
    ex_text,             \* extract_clean_json: its argument
    ex_result,           \* extract_clean_json: its outcome
    ex_done              \* extract_clean_json has been applied

pipeVars ==
    << pc, metadata_analysis, decision_metadata, intro_content, component_type,
       chart_type, build_parse, parent_response, structured_response, calls, error,
       messages, artifacts, response_data, other >>

exVars == << ex_text, ex_result, ex_done >>

VARIABLES
    wh_pc,               \* gmail_webhook: where each delivery stands
    rate_limit,          \* Redis key rate_limit:gmail_webhook
    processed_message,   \* Redis key processed_message:<msg_id>
    chat_responses,      \* the chat responses gmail_entry produced for the message
    reply_emails         \* the reply emails sent for the message

whVars == << wh_pc, rate_limit, processed_message, chat_responses, reply_emails >>

VARIABLES
    tk_primary,          \* Redis key gmail_oauth_tokens
    tk_backup,           \* Redis key gmail_oauth_tokens_backup
    tk_cleared,          \* clear_tokens succeeded and store_tokens has not run since
    tk_credentials       \* what get_valid_credentials returned last

tokVars == << tk_primary, tk_backup, tk_cleared, tk_credentials >>

VARIABLES
    pl_conversations,    \* the Conversation rows, each with the fields of its collection
    pl_requests,         \* the chat requests in progress and their replies
    pl_left              \* the requests still to come

platVars == << pl_conversations, pl_requests, pl_left >>

VARIABLES
    tt_pc,               \* generate_unique_title: where it stands
    tt_existing,         \* existing_titles
    tt_max_attempts,     \* max_attempts
    tt_attempt,          \* attempt
    tt_used,             \* used_titles
    tt_calls,            \* the title completion calls issued
    tt_counter,          \* generate_fallback_title: counter
    tt_result            \* the (title, is_fallback) returned

titleVars ==
    << tt_pc, tt_existing, tt_max_attempts, tt_attempt, tt_used, tt_calls, tt_counter, tt_result >>

\* the state outside get_chat_response and extract_clean_json
sideVars == << whVars, tokVars, platVars, titleVars >>

vars == << pc, metadata_analysis, decision_metadata, intro_content, component_type,
           chart_type, build_parse, parent_response, structured_response, calls,
           error, messages, artifacts, response_data, other, ex_text, ex_result, ex_done,
           sideVars >>

\* the deliveries of the notification for one Gmail message
MaxDeliveries == 3

Deliveries == 1..MaxDeliveries

InitWebhook ==
    /\ wh_pc = [d \in Deliveries |-> "pending"]
    /\ rate_limit = "none"
    /\ processed_message = FALSE
    /\ chat_responses = 0
    /\ reply_emails = 0

\* the OAuth grants the callback may store
MaxGrants == 3

Grants == 1..MaxGrants

\* the refreshes of one grant that are followed
MaxRefreshes == 2

\* no token data under a key; None as the result of get_valid_credentials
NoToken == [id |-> 0, access |-> 0, expired |-> FALSE]

\* get_valid_credentials has not been called since the tokens were cleared
NotCalled == [id |-> 0, access |-> 0, expired |-> TRUE]

InitTokens ==
    /\ tk_primary = NoToken
    /\ tk_backup = NoToken
    /\ tk_cleared = FALSE
    /\ tk_credentials = NotCalled

\* the conversations, Gmail threads, concurrent requests and requests followed
MaxConversations == 3
MaxThreads == 2
MaxSlots == 2
MaxRequests == 4

Conversations == 1..MaxConversations
Threads == 1..MaxThreads
Slots == 1..MaxSlots

\* a Conversation row that does not exist yet
NoConversation ==
    [ exists |-> FALSE, platform |-> "none", thread_id |-> 0, is_platform_changed |-> FALSE,
      platform_changed |-> "none", messages |-> 0, artifacts |-> 0 ]

\* no request in the slot
NoRequest ==
    [ pc |-> "idle", platform |-> "none", thread_id |-> 0, conversation_id |-> 0,
      moved |-> FALSE, stored |-> 0, reply |-> "none" ]

InitPlatform ==
    /\ pl_conversations = [c \in Conversations |-> NoConversation]
    /\ pl_requests = [s \in Slots |-> NoRequest]
    /\ pl_left = MaxRequests

\* max_attempts: int = 3
DefaultMaxAttempts == 3

\* nothing returned yet
NoTitle == [title |-> "", is_fallback |-> FALSE, returned |-> FALSE]

\* generate_unique_title as get_chat_response calls it: existing_titles=[]
InitTitle ==
    /\ tt_pc = "loop"
    /\ tt_existing = {}
    /\ tt_max_attempts = DefaultMaxAttempts
    /\ tt_attempt = 0
    /\ tt_used = <<>>
    /\ tt_calls = 0
    /\ tt_counter = 0
    /\ tt_result = NoTitle

InitSide == InitWebhook /\ InitTokens /\ InitPlatform /\ InitTitle

NoDecision == [selected_agent |-> ABSENT, analysis |-> ABSENT, artifact_creation |-> ABSENT]

NoExtract == [raised |-> FALSE, val |-> <<>>]

\* response_data before the endpoint builds it
NoResponseData == [message_id |-> 0, artifact_id |-> 0, artifact_error |-> FALSE]

\* the locals of get_chat_response and of the calls it makes, as one record
Frame(at, analysis, decision, intro, component, chart, parse, parent, structured, log, exc, resp) ==
    [ pc |-> at, metadata_analysis |-> analysis, decision_metadata |-> decision,
      intro_content |-> intro, component_type |-> component,
      chart_type |-> chart, build_parse |-> parse, parent_response |-> parent,
      structured_response |-> structured, calls |-> log, error |-> exc,
      response_data |-> resp ]

\* the locals of an invocation that has not run yet
NewFrame ==
    Frame("user_message", ABSENT, NoDecision, ABSENT, ABSENT, ABSENT, "none",
          NoResponse, NoStructured, <<>>, "", NoResponseData)

InitPipe ==
    /\ pc = "user_message"
    /\ metadata_analysis = ABSENT
    /\ decision_metadata = NoDecision
    /\ intro_content = ABSENT
    /\ component_type = ABSENT
    /\ chart_type = ABSENT
    /\ build_parse = "none"
    /\ parent_response = NoResponse
    /\ structured_response = NoStructured
    /\ calls = <<>>
    /\ error = ""
    /\ messages = <<>>
    /\ artifacts = <<>>
    /\ response_data = NoResponseData
    /\ other = NewFrame

InitEx ==
    /\ ex_text = <<>>
    /\ ex_result = NoExtract
    /\ ex_done = FALSE

Init == InitPipe /\ InitEx /\ InitSide

\* a completion call that failed: GPTService.get_chat_response raises
Failed == [raised |-> TRUE, text |-> <<>>]
Returned(text) == [raised |-> FALSE, text |-> text]
Ok(out) == IF out.raised THEN "failed" ELSE "ok"

\* an exception leaves get_chat_response's pipeline; text is what the
\* completion call of the stage returned, <<>> if it failed
Raise(stage, exc, text) ==
    /\ pc' = "raised"
    /\ error' = exc
    /\ calls' = Append(calls, <<stage, IF exc = "completion" THEN "failed" ELSE "ok", text>>)

----------------------------------------------------------------------------
(* Actions *)

\* get_chat_response storing the prompt only together with the reply
CreateUserMessage_deferred ==
    /\ pc = "user_message"
    /\ pc' = "analyze"
    /\ UNCHANGED << metadata_analysis, decision_metadata, intro_content, component_type,
                    chart_type, build_parse, parent_response, structured_response,
                    calls, error, messages, artifacts, response_data, other >>
    /\ UNCHANGED << exVars, sideVars >>

\* the Message row of the user's prompt
UserMessage == [role |-> "user", content |-> Str("prompt"), has_artifact |-> FALSE]

\* chat_router: chat_service.create_message for the prompt, committed before
\* the input analysis starts
CreateUserMessage ==
    /\ pc = "user_message"
    /\ messages' = Append(messages, UserMessage)
    /\ pc' = "analyze"
    /\ UNCHANGED << metadata_analysis, decision_metadata, intro_content, component_type,
                    chart_type, build_parse, parent_response, structured_response,
                    calls, error, artifacts, response_data, other >>
    /\ UNCHANGED << exVars, sideVars >>

\* InputAnalyzer._generate_metadata: metadata["analysis"]
generate_metadata(gpt_response) ==
    Get(extract_clean_json(gpt_response).val, "analysis", Str("No analysis available"))

\* InputAnalyzer.analyze_input
AnalyzeInput ==
    /\ pc = "analyze"
    /\ \/ /\ Raise("analyze", "completion", <<>>)
          /\ UNCHANGED metadata_analysis
       \/ \E raw \in AnalyzeTexts :
            /\ metadata_analysis' = generate_metadata(ChatText(raw))
            /\ pc' = "decide"
            /\ calls' = Append(calls, <<"analyze", "ok", ChatText(raw)>>)
            /\ UNCHANGED error
    /\ UNCHANGED << decision_metadata, intro_content, component_type, chart_type,
                    build_parse, parent_response, structured_response >>
    /\ UNCHANGED << messages, artifacts, response_data, other >>
    /\ UNCHANGED << exVars, sideVars >>

\* chat_router: decide_workflow, then the branch on selected_agent
DecideWorkflow ==
    /\ pc = "decide"
    /\ \/ /\ Raise("decide", "completion", <<>>)
          /\ UNCHANGED decision_metadata
       \/ \E raw \in DecideTexts :
            LET dm == decide_workflow(ChatText(raw), metadata_analysis)
            IN /\ decision_metadata' = dm
               /\ pc' = IF dm.selected_agent = Str("ParentAgent") THEN "process" ELSE "direct"
               /\ calls' = Append(calls, <<"decide", "ok", ChatText(raw)>>)
               /\ UNCHANGED error
    /\ UNCHANGED << metadata_analysis, intro_content, component_type, chart_type,
                    build_parse, parent_response, structured_response >>
    /\ UNCHANGED << messages, artifacts, response_data, other >>
    /\ UNCHANGED << exVars, sideVars >>

\* process without the requires_artifact branch: every request is built
Process_always_artifact ==
    /\ pc = "process"
    /\ pc' = "intro"
    /\ UNCHANGED << metadata_analysis, decision_metadata, intro_content, component_type,
                    chart_type, build_parse, parent_response, structured_response,
                    calls, error >>
    /\ UNCHANGED << messages, artifacts, response_data, other >>
    /\ UNCHANGED << exVars, sideVars >>

\* ParentAgent.process: if not requires_artifact -> QuickResponder
Process ==
    /\ pc = "process"
    /\ pc' = IF Truthy(decision_metadata.artifact_creation) THEN "intro" ELSE "quick"
    /\ UNCHANGED << metadata_analysis, decision_metadata, intro_content, component_type,
                    chart_type, build_parse, parent_response, structured_response,
                    calls, error >>
    /\ UNCHANGED << messages, artifacts, response_data, other >>
    /\ UNCHANGED << exVars, sideVars >>

\* ParentAgent.process: the introductory content
IntroContent ==
    /\ pc = "intro"
    /\ \/ /\ Raise("intro", "completion", <<>>)
          /\ UNCHANGED intro_content
       \/ \E raw \in RawContents("intro") :
            /\ intro_content' = ChatContent(raw)
            /\ pc' = "select"
            /\ calls' = Append(calls, <<"intro", "ok", <<StrStrip(raw)>> >>)
            /\ UNCHANGED error
    /\ UNCHANGED << metadata_analysis, decision_metadata, component_type, chart_type,
                    build_parse, parent_response, structured_response >>
    /\ UNCHANGED << messages, artifacts, response_data, other >>
    /\ UNCHANGED << exVars, sideVars >>

\* the component decision followed by a correction call that supplies the
\* subtype a Chart decision lacks
SelectComponent_correcting ==
    /\ pc = "select"
    /\ \/ /\ Raise("select", "completion", <<>>)
          /\ UNCHANGED << component_type, chart_type >>
       \/ \E raw \in SelectTexts :
            LET d == ComponentDecision(ChatText(raw))
                corrected == d.component_type = Str("Chart") /\ ~Truthy(d.chart_type)
            IN IF d.raised
               THEN /\ Raise("select", "AttributeError", ChatText(raw))
                    /\ UNCHANGED << component_type, chart_type >>
               ELSE /\ component_type' = d.component_type
                    /\ chart_type' = IF corrected THEN Str("bar") ELSE d.chart_type
                    /\ pc' = IF corrected THEN "chart"
                             ELSE Dispatch(d.component_type, d.chart_type)
                    /\ calls' = IF corrected
                                THEN calls \o << <<"select", "ok", ChatText(raw)>>,
                                                 <<"select", "ok", <<"{", "sub=bar", "}">> >> >>
                                ELSE Append(calls, <<"select", "ok", ChatText(raw)>>)
                    /\ UNCHANGED error
    /\ UNCHANGED << metadata_analysis, decision_metadata, intro_content,
                    build_parse, parent_response, structured_response >>
    /\ UNCHANGED << messages, artifacts, response_data, other >>
    /\ UNCHANGED << exVars, sideVars >>

\* ParentAgent.process: the component decision and the choice of builder
SelectComponent ==
    /\ pc = "select"
    /\ \/ /\ Raise("select", "completion", <<>>)
          /\ UNCHANGED << component_type, chart_type >>
       \/ \E raw \in SelectTexts :
            LET d == ComponentDecision(ChatText(raw))
            IN IF d.raised
               THEN /\ Raise("select", "AttributeError", ChatText(raw))
                    /\ UNCHANGED << component_type, chart_type >>
               ELSE /\ component_type' = d.component_type
                    /\ chart_type' = d.chart_type
                    /\ pc' = Dispatch(d.component_type, d.chart_type)
                    /\ calls' = Append(calls, <<"select", "ok", ChatText(raw)>>)
                    /\ UNCHANGED error
    /\ UNCHANGED << metadata_analysis, decision_metadata, intro_content,
                    build_parse, parent_response, structured_response >>
    /\ UNCHANGED << messages, artifacts, response_data, other >>
    /\ UNCHANGED << exVars, sideVars >>

\* process handing the built artifact to QuickResponder instead of the
\* summary provider
Built_then_quick(stage, ok, text, artifact_response) ==
    /\ parent_response' = [artifact_response EXCEPT !.content = Str(StrStrip(intro_content[2]))]
    /\ pc' = IF artifact_response.has_artifact THEN "quick" ELSE "structure"
    /\ calls' = Append(calls, <<stage, ok, text>>)
    /\ UNCHANGED error

\* artifact_response["content"] = intro_content.strip(), then the summary call
\* if has_artifact
Built(stage, ok, text, artifact_response) ==
    /\ parent_response' = [artifact_response EXCEPT !.content = Str(StrStrip(intro_content[2]))]
    /\ pc' = IF artifact_response.has_artifact THEN "summary" ELSE "structure"
    /\ calls' = Append(calls, <<stage, ok, text>>)
    /\ UNCHANGED error

ParseKind(out, text) == IF out.raised THEN "raised" ELSE JsonLoads(text).kind

\* ArtifactConstructor.construct_artifact for a Chart
ConstructArtifact ==
    /\ pc = "chart"
    /\ \E out \in {Failed} \cup {Returned(ChatText(raw)) : raw \in ChartTexts} :
         /\ build_parse' = ParseKind(out, out.text)
         /\ Built("chart", Ok(out), out.text, construct_artifact(component_type, chart_type, out))
    /\ UNCHANGED << metadata_analysis, decision_metadata, intro_content, component_type,
                    chart_type, structured_response >>
    /\ UNCHANGED << messages, artifacts, response_data, other >>
    /\ UNCHANGED << exVars, sideVars >>

\* ParentAgent.construct_table_artifact
ConstructTable ==
    /\ pc = "table"
    /\ \/ /\ Raise("table", "completion", <<>>)
          /\ build_parse' = "raised"
          /\ UNCHANGED parent_response
       \/ \E raw \in TableTexts :
            LET r == construct_table_artifact(ChatText(raw))
            IN /\ build_parse' = JsonLoads(Strip(RemoveFences(ChatText(raw)))).kind
               /\ IF r.raised
                  THEN /\ Raise("table", "AttributeError", ChatText(raw))
                       /\ UNCHANGED parent_response
                  ELSE Built("table", "ok", ChatText(raw), r.result)
    /\ UNCHANGED << metadata_analysis, decision_metadata, intro_content, component_type,
                    chart_type, structured_response >>
    /\ UNCHANGED << messages, artifacts, response_data, other >>
    /\ UNCHANGED << exVars, sideVars >>

\* ParentAgent.construct_card_artifact
ConstructCard ==
    /\ pc = "card"
    /\ \E out \in {Failed} \cup {Returned(ChatText(raw)) : raw \in CardTexts} :
         /\ build_parse' = ParseKind(out, Strip(RemoveFences(out.text)))
         /\ Built("card", Ok(out), out.text, construct_card_artifact(out))
    /\ UNCHANGED << metadata_analysis, decision_metadata, intro_content, component_type,
                    chart_type, structured_response >>
    /\ UNCHANGED << messages, artifacts, response_data, other >>
    /\ UNCHANGED << exVars, sideVars >>

\* ArtifactSummaryProvider.provide_summary, then process returns
ProvideSummary ==
    /\ pc = "summary"
    /\ \/ /\ Raise("summary", "completion", <<>>)
          /\ UNCHANGED parent_response
       \/ \E raw \in RawContents("summary") :
            /\ parent_response' =
                 [parent_response EXCEPT !.summary = Str(StrStrip(ChatContent(raw)[2]))]
            /\ pc' = "structure"
            /\ calls' = Append(calls, <<"summary", "ok", <<StrStrip(raw)>> >>)
            /\ UNCHANGED error
    /\ UNCHANGED << metadata_analysis, decision_metadata, intro_content, component_type,
                    chart_type, build_parse, structured_response >>
    /\ UNCHANGED << messages, artifacts, response_data, other >>
    /\ UNCHANGED << exVars, sideVars >>

\* QuickResponder.respond catching the failed call and answering with a
\* stock sentence
QuickRespond_fallback ==
    /\ pc = "quick"
    /\ \/ /\ parent_response' = QuickResponse(Str("quick"))
          /\ pc' = "structure"
          /\ calls' = Append(calls, <<"quick", "failed", <<>> >>)
          /\ UNCHANGED error
       \/ \E raw \in RawContents("quick") :
            /\ parent_response' = QuickResponse(ChatContent(raw))
            /\ pc' = "structure"
            /\ calls' = Append(calls, <<"quick", "ok", <<StrStrip(raw)>> >>)
            /\ UNCHANGED error
    /\ UNCHANGED << metadata_analysis, decision_metadata, intro_content, component_type,
                    chart_type, build_parse, structured_response >>
    /\ UNCHANGED << messages, artifacts, response_data, other >>
    /\ UNCHANGED << exVars, sideVars >>

\* QuickResponder.respond, then process returns
QuickRespond ==
    /\ pc = "quick"
    /\ \/ /\ Raise("quick", "completion", <<>>)
          /\ UNCHANGED parent_response
       \/ \E raw \in RawContents("quick") :
            /\ parent_response' = QuickResponse(ChatContent(raw))
            /\ pc' = "structure"
            /\ calls' = Append(calls, <<"quick", "ok", <<StrStrip(raw)>> >>)
            /\ UNCHANGED error
    /\ UNCHANGED << metadata_analysis, decision_metadata, intro_content, component_type,
                    chart_type, build_parse, structured_response >>
    /\ UNCHANGED << messages, artifacts, response_data, other >>
    /\ UNCHANGED << exVars, sideVars >>

\* chat_router: the branch for an agent other than ParentAgent
DirectChat ==
    /\ pc = "direct"
    /\ \/ /\ Raise("direct", "completion", <<>>)
          /\ UNCHANGED parent_response
       \/ \E raw \in RawContents("direct") :
            /\ parent_response' =
                 Response(ChatContent(raw), FALSE, ABSENT, MissingData, ABSENT)
            /\ pc' = "structure"
            /\ calls' = Append(calls, <<"direct", "ok", <<StrStrip(raw)>> >>)
            /\ UNCHANGED error
    /\ UNCHANGED << metadata_analysis, decision_metadata, intro_content, component_type,
                    chart_type, build_parse, structured_response >>
    /\ UNCHANGED << messages, artifacts, response_data, other >>
    /\ UNCHANGED << exVars, sideVars >>

\* ResponseStructurer.structure_response
StructureResponse ==
    /\ pc = "structure"
    /\ IF NeedsContent(parent_response)
       THEN \E out \in {Failed} \cup {Returned(ChatContent(raw)) : raw \in RawContents("content")} :
              /\ structured_response' = structure_response(parent_response, out)
              /\ calls' = Append(calls, <<"content", Ok(out),
                                         IF out.raised THEN <<>> ELSE <<out.text[2]>> >>)
       ELSE /\ structured_response' = structure_response(parent_response, Failed)
            /\ UNCHANGED calls
    /\ pc' = "done"
    /\ UNCHANGED << metadata_analysis, decision_metadata, intro_content, component_type,
                    chart_type, build_parse, parent_response, error >>
    /\ UNCHANGED << messages, artifacts, response_data, other >>
    /\ UNCHANGED << exVars, sideVars >>

\* chat_router: assistant_message_content
assistant_message_content(selected_agent, parent_metadata) ==
    IF selected_agent = Str("ParentAgent")
    THEN LET c == IF parent_metadata.has_artifact
                  THEN IF parent_metadata.summary = ABSENT
                       THEN Str("Response contains an artifact.")
                       ELSE parent_metadata.summary
                  ELSE parent_metadata.content
         IN IF Truthy(c) THEN c ELSE Str("No response content available.")
    ELSE parent_metadata.content

\* the attributes of the mapped class Artifact
ArtifactColumns ==
    { "id", "message_id", "component_type", "title", "description", "data", "style",
      "configuration", "created_at", "updated_at", "message" }

\* the keyword arguments get_chat_response gives to Artifact(...)
ArtifactKwargs ==
    { "message_id", "component_type", "sub_type", "title", "description", "data",
      "style", "configuration" }

\* the constructor of a declarative class: TypeError for a keyword argument
\* that is no attribute of the class
ArtifactInit(kwargs) == [raised |-> ~(kwargs \subseteq ArtifactColumns)]

\* chat_router: chat_service.create_message for the assistant's reply, then
\* the Artifact row inside try / except Exception, then the return; no await
\* stands between them.  db.commit() of the row succeeds or raises
CreateAssistantMessage ==
    /\ pc = "done"
    /\ messages' = Append(messages,
          [ role |-> "assistant",
            content |-> assistant_message_content(decision_metadata.selected_agent,
                                                  parent_response),
            has_artifact |-> structured_response.has_artifact ])
    /\ IF structured_response.has_artifact /\ decision_metadata.selected_agent = Str("ParentAgent")
       THEN IF ArtifactInit(ArtifactKwargs).raised
            THEN /\ response_data' = [message_id |-> Len(messages'), artifact_id |-> 0,
                                      artifact_error |-> TRUE]
                 /\ UNCHANGED artifacts
            ELSE \/ /\ artifacts' = Append(artifacts,
                            [ message_id |-> Len(messages'),
                              component_type |-> structured_response.component_type,
                              data |-> structured_response.data ])
                    /\ response_data' = [message_id |-> Len(messages'),
                                         artifact_id |-> Len(artifacts'),
                                         artifact_error |-> FALSE]
                 \/ /\ response_data' = [message_id |-> Len(messages'), artifact_id |-> 0,
                                         artifact_error |-> TRUE]
                    /\ UNCHANGED artifacts
       ELSE /\ response_data' = [message_id |-> Len(messages'), artifact_id |-> 0,
                                 artifact_error |-> FALSE]
            /\ UNCHANGED artifacts
    /\ pc' = "stored"
    /\ UNCHANGED << metadata_analysis, decision_metadata, intro_content, component_type,
                    chart_type, build_parse, parent_response, structured_response,
                    calls, error, other >>
    /\ UNCHANGED << exVars, sideVars >>

Next ==
    \/ CreateUserMessage
    \/ AnalyzeInput
    \/ DecideWorkflow
    \/ Process
    \/ IntroContent
    \/ SelectComponent
    \/ ConstructArtifact
    \/ ConstructTable
    \/ ConstructCard
    \/ ProvideSummary
    \/ QuickRespond
    \/ DirectChat
    \/ StructureResponse
    \/ CreateAssistantMessage

Spec == Init /\ [][Next]_vars

----------------------------------------------------------------------------
(* Two invocations of get_chat_response on one event loop *)

\* the completion texts of the two-invocation specification
ConcurrentTexts ==
    { <<"{", "an=plain", "}">>,
      <<"{", "ra=T", "}">>, <<"{", "ra=F", "}">>, <<"{", "ra=T", ",", "sa=X", "}">>,
      <<"{", "ct=Chart", ",", "sub=bar", "}">>, <<"{", "ct=Table", "}">>,
      <<"{", "ct=Card", "}">>, <<"{", "ct=Text", "}">>,
      <<"{", "title", "}">>, <<"{", "headers", "}">>, <<"{", "metrics=ok", "}">>,
      <<"p">>,
      <<"">>, <<"intro">>, <<"summary">>, <<"quick">>, <<"direct">>, <<"content">> }

\* every completion call so far failed or returned one of ConcurrentTexts,
\* the empty text only as intro content
ConcurrentInputs ==
    \A i \in 1..Len(calls) :
        \/ calls[i][2] = "failed"
        \/ /\ calls[i][3] \in ConcurrentTexts
           /\ calls[i][3] = <<"">> => calls[i][1] = "intro"

\* at an await the event loop runs the other invocation, and intro_content is
\* kept in one place for both
Switch_shared_intro ==
    /\ other' = Frame(pc, metadata_analysis, decision_metadata, intro_content,
                      component_type, chart_type, build_parse, parent_response,
                      structured_response, calls, error, response_data)
    /\ pc' = other.pc
    /\ metadata_analysis' = other.metadata_analysis
    /\ decision_metadata' = other.decision_metadata
    /\ UNCHANGED intro_content
    /\ component_type' = other.component_type
    /\ chart_type' = other.chart_type
    /\ build_parse' = other.build_parse
    /\ parent_response' = other.parent_response
    /\ structured_response' = other.structured_response
    /\ calls' = other.calls
    /\ error' = other.error
    /\ response_data' = other.response_data
    /\ UNCHANGED << messages, artifacts >>
    /\ UNCHANGED << exVars, sideVars >>

\* at an await the event loop runs the other invocation: each invocation has
\* its own services (chat_router.py:74-80, 319) and its own locals; the
\* database is the one thing both write
Switch ==
    /\ other' = Frame(pc, metadata_analysis, decision_metadata, intro_content,
                      component_type, chart_type, build_parse, parent_response,
                      structured_response, calls, error, response_data)
    /\ pc' = other.pc
    /\ metadata_analysis' = other.metadata_analysis
    /\ decision_metadata' = other.decision_metadata
    /\ intro_content' = other.intro_content
    /\ component_type' = other.component_type
    /\ chart_type' = other.chart_type
    /\ build_parse' = other.build_parse
    /\ parent_response' = other.parent_response
    /\ structured_response' = other.structured_response
    /\ calls' = other.calls
    /\ error' = other.error
    /\ response_data' = other.response_data
    /\ UNCHANGED << messages, artifacts >>
    /\ UNCHANGED << exVars, sideVars >>

\* a step of the running invocation
Step == Next /\ ConcurrentInputs'

NextConcurrent ==
    \/ Step
    \/ Switch

SpecConcurrent == Init /\ [][NextConcurrent]_vars

----------------------------------------------------------------------------
(* Cancellation of get_chat_response *)

\* the stages in which get_chat_response stands at an await
AwaitStages ==
    { "analyze", "decide", "intro", "select", "chart", "table", "card",
      "summary", "quick", "direct", "structure" }

\* the request's task is cancelled at an await: CancelledError is no Exception,
\* so no except clause of the handler or of the stages catches it, and
\* nothing undoes a commit already made
Cancel ==
    /\ pc \in AwaitStages
    /\ pc' = "cancelled"
    /\ UNCHANGED << metadata_analysis, decision_metadata, intro_content, component_type,
                    chart_type, build_parse, parent_response, structured_response,
                    calls, error, messages, artifacts, response_data, other >>
    /\ UNCHANGED << exVars, sideVars >>

NextCancel ==
    \/ Next
    \/ Cancel

SpecCancel == Init /\ [][NextCancel]_vars

----------------------------------------------------------------------------
(* extract_clean_json on every text up to MaxLen tokens *)

ExtractAlphabet == {"{", "}", ",", "F", "J", "w", "p", "title", "title=F"}

ExtractTexts == UNION {[1..n -> ExtractAlphabet] : n \in 0..MaxLen}

InitExtract ==
    /\ InitPipe
    /\ InitSide
    /\ ex_text \in ExtractTexts
    /\ ex_result = NoExtract
    /\ ex_done = FALSE

ExtractCall ==
    /\ ~ex_done
    /\ ex_result' = extract_clean_json(ex_text)
    /\ ex_done' = TRUE
    /\ UNCHANGED ex_text
    /\ UNCHANGED << pipeVars, sideVars >>

NextExtract == ExtractCall

SpecExtract == InitExtract /\ [][NextExtract]_vars

----------------------------------------------------------------------------
(* gmail_webhook: the deliveries of the notification for one Gmail message,  *)
(* with Redis available                                                      *)

\* what the actions of the webhook leave alone
NotWebhook == << pipeVars, exVars, tokVars, platVars, titleVars >>

\* the X-Goog-Resource-State header of a delivery
ResourceStates == {"sync", "exists", "none"}

\* gmail_webhook up to redis_service.get_rate_limit: sync and exists
\* notifications are acknowledged; a delivery within the window of the last
\* one is skipped, any other stamps the key
WebhookRateLimit(d) ==
    /\ wh_pc[d] = "pending"
    /\ \E resource_state \in ResourceStates :
         IF resource_state \in {"sync", "exists"}
         THEN /\ wh_pc' = [wh_pc EXCEPT ![d] = "acknowledged"]
              /\ UNCHANGED rate_limit
         ELSE IF rate_limit = "fresh"
              THEN /\ wh_pc' = [wh_pc EXCEPT ![d] = "rate_limited"]
                   /\ UNCHANGED rate_limit
              ELSE /\ wh_pc' = [wh_pc EXCEPT ![d] = "check"]
                   /\ rate_limit' = "fresh"
    /\ UNCHANGED << processed_message, chat_responses, reply_emails >>
    /\ UNCHANGED NotWebhook

\* window_seconds pass since the key was stamped
RateWindowPasses ==
    /\ rate_limit = "fresh"
    /\ rate_limit' = "old"
    /\ UNCHANGED << wh_pc, processed_message, chat_responses, reply_emails >>
    /\ UNCHANGED NotWebhook

\* get_gmail_service, messages().list, redis_service.was_processed
WebhookCheckProcessed(d) ==
    /\ wh_pc[d] = "check"
    /\ \/ wh_pc' = [wh_pc EXCEPT ![d] = "unauthorized"]
       \/ wh_pc' = [wh_pc EXCEPT ![d] = IF processed_message THEN "skipped" ELSE "chat"]
    /\ UNCHANGED << rate_limit, processed_message, chat_responses, reply_emails >>
    /\ UNCHANGED NotWebhook

\* gmail_entry: the chat response for the body of the message, or
\* HTTPException, which gmail_webhook raises again
WebhookGmailEntry(d) ==
    /\ wh_pc[d] = "chat"
    /\ \/ /\ chat_responses' = chat_responses + 1
          /\ wh_pc' = [wh_pc EXCEPT ![d] = "send"]
       \/ /\ wh_pc' = [wh_pc EXCEPT ![d] = "raised"]
          /\ UNCHANGED chat_responses
    /\ UNCHANGED << rate_limit, processed_message, reply_emails >>
    /\ UNCHANGED NotWebhook

\* process_and_send_email_response: messages().send, or its exception, which
\* gmail_webhook answers with status "error"
WebhookSendEmail(d) ==
    /\ wh_pc[d] = "send"
    /\ \/ /\ reply_emails' = reply_emails + 1
          /\ wh_pc' = [wh_pc EXCEPT ![d] = "mark"]
       \/ /\ wh_pc' = [wh_pc EXCEPT ![d] = "error"]
          /\ UNCHANGED reply_emails
    /\ UNCHANGED << rate_limit, processed_message, chat_responses >>
    /\ UNCHANGED NotWebhook

\* redis_service.set_processed, the last step of gmail_webhook
WebhookSetProcessed(d) ==
    /\ wh_pc[d] = "mark"
    /\ processed_message' = TRUE
    /\ wh_pc' = [wh_pc EXCEPT ![d] = "success"]
    /\ UNCHANGED << rate_limit, chat_responses, reply_emails >>
    /\ UNCHANGED NotWebhook

NextWebhook ==
    \/ \E d \in Deliveries : WebhookRateLimit(d)
    \/ RateWindowPasses
    \/ \E d \in Deliveries : WebhookCheckProcessed(d)
    \/ \E d \in Deliveries : WebhookGmailEntry(d)
    \/ \E d \in Deliveries : WebhookSendEmail(d)
    \/ \E d \in Deliveries : WebhookSetProcessed(d)

SpecWebhook == Init /\ [][NextWebhook]_vars

----------------------------------------------------------------------------
(* TokenManager: the Gmail OAuth tokens in Redis *)

\* what the actions of the token manager leave alone
NotTokens == << pipeVars, exVars, whVars, platVars, titleVars >>

\* TokenManager.store_tokens: the primary key, then _backup_tokens
store_tokens(credentials) ==
    [primary |-> credentials, backup |-> credentials, cleared |-> FALSE]

\* TokenManager.clear_tokens: delete_value of the primary key, which succeeds
\* when the key existed
clear_tokens(primary, backup, cleared) ==
    [primary |-> NoToken, backup |-> backup, cleared |-> cleared \/ primary # NoToken]

\* TokenManager.get_valid_credentials: the primary tokens, else the backup;
\* expired credentials are refreshed and stored when the refresh succeeds
get_valid_credentials(refresh_ok) ==
    LET token_data == IF tk_primary # NoToken THEN tk_primary ELSE tk_backup
        kept == [primary |-> tk_primary, backup |-> tk_backup, cleared |-> tk_cleared]
        refreshed == [token_data EXCEPT !.expired = FALSE, !.access = @ + 1]
    IN IF token_data = NoToken
       THEN [store |-> kept, credentials |-> NoToken]
       ELSE IF token_data.expired /\ refresh_ok
            THEN [store |-> store_tokens(refreshed), credentials |-> refreshed]
            ELSE [store |-> kept, credentials |-> token_data]

\* google_auth_callback: store_tokens for the credentials of a new grant
StoreTokens ==
    /\ \E id \in Grants :
         LET s == store_tokens([id |-> id, access |-> 0, expired |-> FALSE])
         IN /\ tk_primary' = s.primary
            /\ tk_backup' = s.backup
            /\ tk_cleared' = s.cleared
    /\ UNCHANGED tk_credentials
    /\ UNCHANGED NotTokens

\* the expiry time of the stored access token passes
TokenExpires ==
    /\ \/ tk_primary # NoToken /\ ~tk_primary.expired
       \/ tk_backup # NoToken /\ ~tk_backup.expired
    /\ tk_primary' = IF tk_primary = NoToken THEN NoToken ELSE [tk_primary EXCEPT !.expired = TRUE]
    /\ tk_backup' = IF tk_backup = NoToken THEN NoToken ELSE [tk_backup EXCEPT !.expired = TRUE]
    /\ UNCHANGED << tk_cleared, tk_credentials >>
    /\ UNCHANGED NotTokens

\* the refresh of the stored token is one that is followed
CanRefresh ==
    LET token_data == IF tk_primary # NoToken THEN tk_primary ELSE tk_backup
    IN token_data.access < MaxRefreshes

\* check_auth_status: "unauthenticated" without primary tokens, else
\* get_valid_credentials
CheckAuthStatus ==
    /\ tk_primary # NoToken
    /\ \E refresh_ok \in {ok \in BOOLEAN : ok => CanRefresh} :
         LET r == get_valid_credentials(refresh_ok)
         IN /\ tk_primary' = r.store.primary
            /\ tk_backup' = r.store.backup
            /\ tk_cleared' = r.store.cleared
            /\ tk_credentials' = r.credentials
    /\ UNCHANGED NotTokens

\* get_gmail_service: get_valid_credentials, then getProfile to test them;
\* on invalid_grant the tokens are cleared
GetGmailService ==
    /\ \E refresh_ok \in {ok \in BOOLEAN : ok => CanRefresh}, profile \in {"ok", "invalid_grant"} :
         LET r == get_valid_credentials(refresh_ok)
             c == clear_tokens(r.store.primary, r.store.backup, r.store.cleared)
         IN IF r.credentials # NoToken /\ profile = "invalid_grant"
            THEN /\ tk_primary' = c.primary
                 /\ tk_backup' = c.backup
                 /\ tk_cleared' = c.cleared
                 /\ tk_credentials' = IF c.cleared THEN NotCalled ELSE r.credentials
            ELSE /\ tk_primary' = r.store.primary
                 /\ tk_backup' = r.store.backup
                 /\ tk_cleared' = r.store.cleared
                 /\ tk_credentials' = r.credentials
    /\ UNCHANGED NotTokens

NextTokens ==
    \/ StoreTokens
    \/ TokenExpires
    \/ CheckAuthStatus
    \/ GetGmailService

SpecTokens == Init /\ [][NextTokens]_vars

----------------------------------------------------------------------------
(* get_chat_response: the platform of a conversation *)

\* what the actions of the platform logic leave alone
NotPlatform == << pipeVars, exVars, whVars, tokVars, titleVars >>

\* chat_service.get_conversation_by_thread_id: 0 when there is none
get_conversation_by_thread_id(thread_id) ==
    IF \E c \in Conversations : pl_conversations[c].exists /\ pl_conversations[c].thread_id = thread_id
    THEN CHOOSE c \in Conversations :
            /\ pl_conversations[c].exists /\ pl_conversations[c].thread_id = thread_id
            /\ \A e \in Conversations :
                 pl_conversations[e].exists /\ pl_conversations[e].thread_id = thread_id => c <= e
    ELSE 0

\* the early check reading the flag the wrong way round
MovedToWeb_unflagged(chat_collection) ==
    /\ ~chat_collection.is_platform_changed
    /\ chat_collection.platform_changed = "web"

\* the early check of a Gmail request: the collection has been moved to web
MovedToWeb(chat_collection) ==
    /\ chat_collection.is_platform_changed
    /\ chat_collection.platform_changed = "web"

\* the platform change scenario: a web request on a collection that Gmail began
PlatformChange(platform, chat_collection) ==
    IF ~chat_collection.is_platform_changed /\ platform = "web" /\ chat_collection.platform = "gmail"
    THEN [chat_collection EXCEPT !.platform_changed = platform, !.is_platform_changed = TRUE]
    ELSE chat_collection

\* the first Conversation row not in use
NewConversation ==
    CHOOSE c \in Conversations :
        ~pl_conversations[c].exists /\ \A e \in Conversations : ~pl_conversations[e].exists => c <= e

\* the request as it stands when get_chat_response is entered
Request(platform, thread_id, conversation_id) ==
    [ pc |-> "begin", platform |-> platform, thread_id |-> thread_id,
      conversation_id |-> conversation_id,
      moved |-> /\ platform = "gmail"
                /\ get_conversation_by_thread_id(thread_id) # 0
                /\ pl_conversations[get_conversation_by_thread_id(thread_id)].is_platform_changed
                /\ pl_conversations[get_conversation_by_thread_id(thread_id)].platform_changed = "web",
      stored |-> 0, reply |-> "none" ]

\* get_chat_response up to the commit of the user's message: the redirect of
\* a Gmail request on a moved conversation; else the conversation named by
\* conversation_id with the platform change, or the one of the Gmail thread,
\* or a new one; then the Message row of the prompt
BeginRequest(s, platform, thread_id, conversation_id) ==
    LET r == Request(platform, thread_id, conversation_id)
        existing == get_conversation_by_thread_id(thread_id)
    IN /\ pl_requests[s].pc = "idle"
       /\ pl_left > 0
       /\ pl_left' = pl_left - 1
       /\ IF platform = "gmail" /\ existing # 0 /\ MovedToWeb(pl_conversations[existing])
          THEN /\ pl_requests' = [pl_requests EXCEPT ![s] =
                     [r EXCEPT !.pc = "returned", !.reply = "redirect", !.conversation_id = existing]]
               /\ UNCHANGED pl_conversations
          ELSE IF conversation_id # 0
          THEN IF ~pl_conversations[conversation_id].exists
               THEN /\ pl_requests' = [pl_requests EXCEPT ![s] =
                          [r EXCEPT !.pc = "returned", !.reply = "not_found"]]
                    /\ UNCHANGED pl_conversations
               ELSE /\ pl_conversations' = [pl_conversations EXCEPT ![conversation_id] =
                          [PlatformChange(platform, @) EXCEPT !.messages = @ + 1]]
                    /\ pl_requests' = [pl_requests EXCEPT ![s] =
                          [r EXCEPT !.pc = "pipeline", !.stored = 1]]
          ELSE IF platform = "gmail" /\ existing # 0
          THEN /\ pl_conversations' = [pl_conversations EXCEPT ![existing].messages = @ + 1]
               /\ pl_requests' = [pl_requests EXCEPT ![s] =
                     [r EXCEPT !.pc = "pipeline", !.stored = 1, !.conversation_id = existing]]
          ELSE /\ \E c \in Conversations : ~pl_conversations[c].exists
               /\ pl_conversations' = [pl_conversations EXCEPT ![NewConversation] =
                     [ exists |-> TRUE, platform |-> platform,
                       thread_id |-> IF platform = "gmail" THEN thread_id ELSE 0,
                       is_platform_changed |-> FALSE, platform_changed |-> "none",
                       messages |-> 1, artifacts |-> 0 ]]
               /\ pl_requests' = [pl_requests EXCEPT ![s] =
                     [r EXCEPT !.pc = "pipeline", !.stored = 1, !.conversation_id = NewConversation]]
       /\ UNCHANGED NotPlatform

\* the rest of get_chat_response: the pipeline fails, or the Message row of
\* the reply is committed and, for an artifact, the Artifact row attempted
FinishRequest(s) ==
    LET r == pl_requests[s]
    IN /\ r.pc = "pipeline"
       /\ \/ /\ pl_requests' = [pl_requests EXCEPT ![s] = [r EXCEPT !.pc = "returned", !.reply = "failed"]]
             /\ UNCHANGED pl_conversations
          \/ \E has_artifact \in BOOLEAN :
               LET row == IF has_artifact /\ ~ArtifactInit(ArtifactKwargs).raised THEN 1 ELSE 0
               IN /\ pl_conversations' = [pl_conversations EXCEPT
                        ![r.conversation_id].messages = @ + 1,
                        ![r.conversation_id].artifacts = @ + row]
                  /\ pl_requests' = [pl_requests EXCEPT ![s] =
                        [r EXCEPT !.pc = "returned", !.reply = "chat", !.stored = @ + 1 + row]]
       /\ UNCHANGED pl_left
       /\ UNCHANGED NotPlatform

\* the reply has gone out; the slot takes the next request
EndRequest(s) ==
    /\ pl_requests[s].pc = "returned"
    /\ pl_requests' = [pl_requests EXCEPT ![s] = NoRequest]
    /\ UNCHANGED << pl_conversations, pl_left >>
    /\ UNCHANGED NotPlatform

NextPlatform ==
    \/ \E s \in Slots, thread_id \in Threads : BeginRequest(s, "gmail", thread_id, 0)
    \/ \E s \in Slots, conversation_id \in Conversations \cup {0} : BeginRequest(s, "web", 0, conversation_id)
    \/ \E s \in Slots : FinishRequest(s)
    \/ \E s \in Slots : EndRequest(s)

SpecPlatform == Init /\ [][NextPlatform]_vars

----------------------------------------------------------------------------
(* TitleGenerator.generate_unique_title *)

\* what the actions of the title generator leave alone
NotTitle == << pipeVars, exVars, whVars, tokVars, platVars >>

\* ' '.join(query.split()[:6]) for the query of the request
BaseTitle == "sales by region"

\* f"{base_title} ({counter})"
NumberedTitle(counter) == BaseTitle \o " (" \o ToString(counter) \o ")"

\* the raw contents the completion service may send for a title
RawTitles == {"Sales", "'Sales'", " Regions ", "sales by region", ""}

\* title.strip().strip('"\'')[:100]
TitleClean(raw) ==
    CASE raw = "'Sales'" -> "Sales"
      [] raw = " Regions " -> "Regions"
      [] OTHER -> raw

\* the titles generate_title may return: the cleaned completion, or the
\* fallback title for an empty existing_titles when the completion call fails
GeneratedTitles == {TitleClean(raw) : raw \in RawTitles} \cup {BaseTitle}

\* the titles a collection may already have
TitlePool == {"Sales", "Regions", BaseTitle, NumberedTitle(1), NumberedTitle(2)}

\* generate_unique_title for every existing_titles and max_attempts
InitTitleInputs ==
    /\ InitPipe
    /\ InitEx
    /\ InitWebhook
    /\ InitTokens
    /\ InitPlatform
    /\ tt_pc = "loop"
    /\ tt_existing \in SUBSET TitlePool
    /\ tt_max_attempts \in 0..DefaultMaxAttempts
    /\ tt_attempt = 0
    /\ tt_used = <<>>
    /\ tt_calls = 0
    /\ tt_counter = 0
    /\ tt_result = NoTitle

\* one pass of `while attempt < max_attempts`: generate_title, then the test
\* against existing_titles
GenerateTitle ==
    /\ tt_pc = "loop"
    /\ tt_attempt < tt_max_attempts
    /\ tt_calls' = tt_calls + 1
    /\ \E title \in GeneratedTitles :
         IF title \notin tt_existing
         THEN /\ tt_result' = [title |-> title, is_fallback |-> FALSE, returned |-> TRUE]
              /\ tt_pc' = "returned"
              /\ UNCHANGED << tt_used, tt_attempt >>
         ELSE /\ tt_used' = Append(tt_used, title)
              /\ tt_attempt' = tt_attempt + 1
              /\ UNCHANGED << tt_result, tt_pc >>
    /\ UNCHANGED << tt_existing, tt_max_attempts, tt_counter >>
    /\ UNCHANGED NotTitle

\* the attempts are exhausted: generate_fallback_title up to its loop
FallbackTitle ==
    /\ tt_pc = "loop"
    /\ tt_attempt >= tt_max_attempts
    /\ IF BaseTitle \notin tt_existing
       THEN /\ tt_result' = [title |-> BaseTitle, is_fallback |-> TRUE, returned |-> TRUE]
            /\ tt_pc' = "returned"
            /\ UNCHANGED tt_counter
       ELSE /\ tt_counter' = 1
            /\ tt_pc' = "fallback"
            /\ UNCHANGED tt_result
    /\ UNCHANGED << tt_existing, tt_max_attempts, tt_attempt, tt_used, tt_calls >>
    /\ UNCHANGED NotTitle

\* the loop of generate_fallback_title without counter += 1
FallbackNumbered_stuck ==
    /\ tt_pc = "fallback"
    /\ IF NumberedTitle(tt_counter) \notin tt_existing
       THEN /\ tt_result' = [title |-> NumberedTitle(tt_counter), is_fallback |-> TRUE,
                             returned |-> TRUE]
            /\ tt_pc' = "returned"
            /\ UNCHANGED tt_counter
       ELSE /\ UNCHANGED << tt_counter, tt_result, tt_pc >>
    /\ UNCHANGED << tt_existing, tt_max_attempts, tt_attempt, tt_used, tt_calls >>
    /\ UNCHANGED NotTitle

\* one pass of `while True` in generate_fallback_title
FallbackNumbered ==
    /\ tt_pc = "fallback"
    /\ IF NumberedTitle(tt_counter) \notin tt_existing
       THEN /\ tt_result' = [title |-> NumberedTitle(tt_counter), is_fallback |-> TRUE,
                             returned |-> TRUE]
            /\ tt_pc' = "returned"
            /\ UNCHANGED tt_counter
       ELSE /\ tt_counter' = tt_counter + 1
            /\ UNCHANGED << tt_result, tt_pc >>
    /\ UNCHANGED << tt_existing, tt_max_attempts, tt_attempt, tt_used, tt_calls >>
    /\ UNCHANGED NotTitle

NextTitle ==
    \/ GenerateTitle
    \/ FallbackTitle
    \/ FallbackNumbered

\* the coroutine runs on: no step of generate_unique_title waits for anything
\* but the completion call, which returns or raises
SpecTitle == InitTitleInputs /\ [][NextTitle]_vars /\ WF_vars(NextTitle)

----------------------------------------------------------------------------
(* Vocabulary of the properties *)

Chart == Str("Chart")
Table == Str("Table")
Card == Str("Card")

Builders == {"chart", "table", "card"}

AllowedSubtypes == {"bar", "line", "pie", "radial", "radar", "area"}

\* no completion call of this request has failed
NoCompletionFailed == \A i \in 1..Len(calls) : calls[i][2] = "ok"

\* the stage was called
Called(stage) == \E i \in 1..Len(calls) : calls[i][1] = stage

\* the completion calls the builders issued
BuildCalls == Cardinality({i \in 1..Len(calls) : calls[i][1] \in Builders})

\* a builder has run to its end
BuildEnded == build_parse # "none"

\* the selection round gave no buildable component
SelectionFailed ==
    /\ component_type # ABSENT
    /\ \/ component_type \notin {Chart, Table, Card}
       \/ component_type = Chart /\ ~Truthy(chart_type)

\* the builder's completion text was no JSON object
BuildFailed == build_parse \in {"error", "nonobject"}

\* the builder's completion text was not parseable as JSON
BuildUnparseable == build_parse = "error"

\* the data the builders substitute when they cannot use the completion
PlaceholderData ==
    { generate_fallback_artifact(component_type, chart_type).data,
      generate_fallback_table.data,
      generate_fallback_card.data }

----------------------------------------------------------------------------
(* C1 *)

\* C1: in every invocation in which no completion call raises, the pipeline
\* returns a result and raises no error, whatever the completion texts are:
\* the only exception that may leave the pipeline is a failed completion call.
C1_NoErrorUnlessCompletionFails ==
    /\ pc = "raised" => error = "completion"
    /\ pc = "done" => structured_response # NoStructured

----------------------------------------------------------------------------
(* C2 *)

\* C2 as stated: whenever selection fails or the build fails, the result has
\* has_artifact = false and non-empty content.
C2_DegradeToText ==
    pc = "done" /\ (SelectionFailed \/ BuildFailed) =>
        /\ ~structured_response.has_artifact
        /\ Truthy(structured_response.content)

\* C2 amended: a failed selection ends in a result with has_artifact = false
\* and non-empty content; an unparseable build completion does not degrade to
\* text: the builder substitutes a placeholder artifact, it raises nothing, and
\* when no completion call failed the result has has_artifact = true and
\* non-empty content.
C2_DegradeOnSelectionOnly ==
    /\ SelectionFailed \/ BuildUnparseable => error \in {"", "completion"}
    /\ pc = "done" /\ SelectionFailed =>
         /\ ~structured_response.has_artifact
         /\ Truthy(structured_response.content)
    /\ pc = "done" /\ BuildUnparseable /\ NoCompletionFailed =>
         /\ parent_response.data \in PlaceholderData
         /\ structured_response.has_artifact
         /\ Truthy(structured_response.content)

\* a build whose completion was unparseable ended in an artifact result
C2_Witness ==
    /\ pc = "done"
    /\ BuildUnparseable
    /\ NoCompletionFailed
    /\ structured_response.has_artifact

----------------------------------------------------------------------------
(* C3 *)

\* C3: a subtype is carried exactly by charts: every decision handed to a
\* builder has a non-null chart_type iff its component type is Chart, and
\* every result with has_artifact = true has a non-null sub_type iff its
\* component type is Chart.
C3_SubtypeIffChart ==
    /\ pc \in Builders =>
         (component_type = Chart <=> chart_type \notin {NONE, ABSENT})
    /\ pc = "done" /\ structured_response.has_artifact =>
         (structured_response.component_type = Chart
            <=> structured_response.sub_type \notin {NONE, ABSENT})

\* a table result, which carries no subtype although its data has a type
C3_Witness ==
    /\ pc = "done"
    /\ structured_response.has_artifact
    /\ structured_response.component_type = Table
    /\ parent_response.data["type"] = Str("table")
    /\ structured_response.sub_type = NONE

----------------------------------------------------------------------------
(* C4 *)

\* C4: the chart builder is only ever invoked with a subtype from
\* {bar, line, pie, radial, radar, area}; a chart decision with any other
\* subtype never reaches the builder.
C4_BuilderOnlyAllowedSubtype ==
    pc = "chart" => chart_type \in {Str(t) : t \in AllowedSubtypes}

----------------------------------------------------------------------------
(* C5 *)

\* C5: one artifact build issues at least 1 and at most 3 completion calls
\* and then returns (it raises only if its completion call failed).
C5_BuildReturnsWithin1To3 ==
    BuildEnded =>
        /\ BuildCalls \in 1..3
        /\ ~(pc = "raised" /\ error # "completion" /\ calls[Len(calls)][1] \in Builders)

----------------------------------------------------------------------------
(* C6 *)

\* C6 as stated: if the build's completion is malformed, the builder reports
\* failure without raising, QuickResponder is then called, and the final
\* result has has_artifact = false.
C6_BuildFailureFallsBackToQuick ==
    /\ BuildUnparseable => error \in {"", "completion"}
    /\ pc = "done" /\ BuildUnparseable =>
         /\ Called("quick")
         /\ ~structured_response.has_artifact

\* C6 amended: if the build's completion text is not parseable as JSON, the
\* builder raises nothing and reports no failure: it returns a placeholder
\* artifact with has_artifact = true, QuickResponder is never called, and when
\* no completion call failed the final result has has_artifact = true.
C6_BuildFailureKeepsPlaceholder ==
    BuildUnparseable =>
        /\ error \in {"", "completion"}
        /\ ~Called("quick")
        /\ parent_response.has_artifact
        /\ parent_response.data \in PlaceholderData
        /\ pc = "done" /\ NoCompletionFailed => structured_response.has_artifact

\* an unparseable table completion ended in the placeholder table
C6_Witness ==
    /\ pc = "done"
    /\ BuildUnparseable
    /\ component_type = Table
    /\ parent_response.data = generate_fallback_table.data
    /\ structured_response.has_artifact
    /\ structured_response.component_type = Table

----------------------------------------------------------------------------
(* C7 *)

\* the artifact result carries the nested data.values its template asks for
Conforms(p) == p.has_artifact /\ p.data["data"][1] = "dict_values"

\* the keys structure_response adds for the component type
TypeKeys(ct) ==
    CASE ct = Table -> {"headers", "rows"}
      [] ct = Chart -> {"axis_labels", "config"}
      [] ct = Card -> {"metrics", "footer"}
      [] OTHER -> {}

\* the content completion of structure_response, if called, did not fail
ContentCallOk == \A i \in 1..Len(calls) : calls[i][1] = "content" => calls[i][2] = "ok"

\* C7 as stated: for every conforming artifact result p, normalization yields
\* has_artifact = true and a data field exactly equal to p.data.
C7_DataCopiedVerbatim ==
    pc = "done" /\ Conforms(parent_response) /\ ContentCallOk =>
        /\ structured_response.has_artifact
        /\ structured_response.data = parent_response.data

\* C7 amended: for every conforming artifact result p, normalization (when its
\* own content completion does not fail) yields has_artifact = true and a data
\* field rebuilt from p.data: labels and title are copied, values is
\* p.data.data.values, style is p.data.style or the default size, the keys
\* type and data are dropped, and the keys of the component type are added
\* (headers, rows / axis_labels, config / metrics, footer).
C7_DataRebuilt ==
    pc = "done" /\ Conforms(parent_response) /\ ContentCallOk =>
        LET p == parent_response.data
            d == structured_response.data
        IN /\ structured_response.has_artifact
           /\ KeysOf(d) = {"labels", "values", "style", "title"}
                            \cup TypeKeys(structured_response.component_type)
           /\ d["labels"] = p["labels"]
           /\ d["title"] = p["title"]
           /\ d["values"] = <<"list", p["data"][2]>>
           /\ d["style"] = DGet(p, "style", <<"dict", "default:style">>)
           /\ d # p

\* a chart built from a complete completion text was normalized
C7_Witness ==
    /\ pc = "done"
    /\ Conforms(parent_response)
    /\ parent_response.component_type = Chart
    /\ parent_response.data["data"] = <<"dict_values", "gpt:values">>
    /\ structured_response.data["values"] = <<"list", "gpt:values">>

----------------------------------------------------------------------------
(* C8 *)

IsNullData(d) == d \in {NoneData, MissingData}

\* C8: the record handed to the normalizer is either an artifact result
\* (has_artifact = true, data not null) or a quick response (has_artifact =
\* false, data null, component_type null), never a mix.
C8_OneOfQuickOrArtifact ==
    pc \in {"structure", "done", "stored"} =>
        \/ /\ parent_response.has_artifact
           /\ ~IsNullData(parent_response.data)
        \/ /\ ~parent_response.has_artifact
           /\ IsNullData(parent_response.data)
           /\ parent_response.component_type \in {NONE, ABSENT}

\* QuickResponder's record reached the normalizer after a failed selection
C8_Witness ==
    /\ pc = "structure"
    /\ Called("quick")
    /\ Called("select")
    /\ ~parent_response.has_artifact
    /\ parent_response.data = NoneData

----------------------------------------------------------------------------
(* C10 *)

\* the first selection round named a component type outside the allowed set
OutsideAllowed ==
    /\ component_type # ABSENT
    /\ component_type \notin {Chart, Table, Card, Str("Text")}

\* the stages called after the selection round
AfterSelect == {calls[i][1] : i \in {j \in 1..Len(calls) : \E k \in 1..(j-1) : calls[k][1] = "select"}}

\* C10: when the selection round returns a component_type outside the allowed
\* set, no further selection call is made, no artifact is built, and the
\* request is answered by QuickResponder with has_artifact = false.
C10_OutsideTypeGoesToQuick ==
    OutsideAllowed =>
        /\ pc \in {"quick", "structure", "done", "stored", "raised"}
        /\ AfterSelect \subseteq {"quick"}
        /\ build_parse = "none"
        /\ error \in {"", "completion"}
        /\ pc \in {"structure", "done", "stored"} =>
             Called("quick") /\ ~parent_response.has_artifact
        /\ pc \in {"done", "stored"} => ~structured_response.has_artifact

\* a request whose decision named an unknown component type was answered
C10_Witness ==
    /\ pc = "done"
    /\ OutsideAllowed
    /\ Called("quick")
    /\ ~structured_response.has_artifact

----------------------------------------------------------------------------
(* C9, under SpecExtract *)

\* the part of a text from its first "{" to its last "}" is missing or is not
\* valid JSON
NoJsonBetweenBraces(text) ==
    \/ Find(text, "{") = 0
    \/ RFind(text, "}") = 0
    \/ JsonLoads(SubSeq(text, Find(text, "{"), RFind(text, "}"))).kind = "error"

\* C9 as stated: extract never raises, returns an object, and returns the
\* empty object whenever the text has no "{" or no "}" or the text from the
\* first "{" to the last "}" is not valid JSON.
C9_EmptyOnInvalidText ==
    ex_done =>
        /\ ~ex_result.raised
        /\ IsObject(ex_result.val)
        /\ NoJsonBetweenBraces(ex_text) => ex_result.val = EmptyObject

\* C9 amended: extract never raises, returns an object, and returns the empty
\* object whenever the text with its ``` and ```json markers removed has no
\* "{" or no "}" or is not valid JSON from its first "{" to its last "}".
C9_EmptyOnInvalidCleanedText ==
    ex_done =>
        /\ ~ex_result.raised
        /\ IsObject(ex_result.val)
        /\ NoJsonBetweenBraces(RemoveFences(ex_text)) => ex_result.val = EmptyObject

\* a text with both braces and no valid JSON between them gave the empty object
C9_Witness ==
    /\ ex_done
    /\ Find(ex_text, "{") # 0
    /\ RFind(ex_text, "}") # 0
    /\ NoJsonBetweenBraces(RemoveFences(ex_text))
    /\ ex_result.val = EmptyObject
    /\ ~ex_result.raised

----------------------------------------------------------------------------
(* C11 *)

\* ParentAgent.process was entered with a falsy requires_artifact
NoArtifactNeeded ==
    /\ pc \notin {"user_message", "analyze", "decide"}
    /\ decision_metadata.selected_agent = Str("ParentAgent")
    /\ ~Truthy(decision_metadata.artifact_creation)

\* the completion calls a stage issued
CallsOf(stage) == {i \in 1..Len(calls) : calls[i][1] = stage}

\* C11: when the analysis says requires_artifact = false, the pipeline runs
\* only QuickResponder: after the decision exactly one completion call is
\* issued, the quick one, there is no selection and no build, and the result
\* has has_artifact = false.
C11_NoArtifactOnlyQuick ==
    NoArtifactNeeded =>
        /\ \A i \in 1..Len(calls) : calls[i][1] \in {"analyze", "decide", "quick"}
        /\ Cardinality(CallsOf("quick")) <= 1
        /\ intro_content = ABSENT
        /\ component_type = ABSENT
        /\ build_parse = "none"
        /\ pc \in {"structure", "done", "stored"} =>
             /\ Cardinality(CallsOf("quick")) = 1
             /\ ~parent_response.has_artifact
        /\ pc \in {"done", "stored"} => ~structured_response.has_artifact

\* a request that needed no artifact was answered by QuickResponder alone
C11_Witness ==
    /\ pc = "done"
    /\ NoArtifactNeeded
    /\ Len(calls) = 3
    /\ calls[3][1] = "quick"
    /\ ~structured_response.has_artifact

----------------------------------------------------------------------------
(* C12 *)

----------------------------------------------------------------------------
(* C13 *)

\* C13: for a chart decision with selected subtype s, every build whose
\* completion parsed (no completion call failing) ends in a result with
\* has_artifact = true, component type Chart and sub_type = s, whatever type
\* the completion's payload names or omits.
C13_ChartBuildKeepsSubtype ==
    /\ pc = "done"
    /\ component_type = Chart
    /\ Truthy(chart_type)
    /\ build_parse = "object"
    /\ NoCompletionFailed
    => /\ parent_response.data["type"] = chart_type
       /\ structured_response.has_artifact
       /\ structured_response.component_type = Chart
       /\ structured_response.sub_type = chart_type

----------------------------------------------------------------------------
(* C14 *)

\* C14: given a record whose has_artifact is false, the normalizer returns
\* has_artifact = false, a content that is not null, and component_type,
\* sub_type, data and summary all null.
C14_NoArtifactNormalized ==
    pc \in {"done", "stored"} /\ ~parent_response.has_artifact =>
        /\ ~structured_response.has_artifact
        /\ structured_response.content[1] = "str"
        /\ structured_response.component_type = NONE
        /\ structured_response.sub_type = NONE
        /\ structured_response.data = NoneData
        /\ structured_response.summary = NONE

\* the reply of the agent other than ParentAgent, which carries no data key,
\* was normalized
C14_Witness ==
    /\ pc = "done"
    /\ ~parent_response.has_artifact
    /\ parent_response.data = MissingData
    /\ parent_response.content = Str("")
    /\ structured_response.content = Str("Let me help you visualize this data.")
    /\ structured_response.data = NoneData

----------------------------------------------------------------------------
(* C15 *)

\* C15: QuickResponder.respond issues exactly one completion call and never
\* retries; when the call succeeds it returns has_artifact = false with the
\* call's text as content; when the call fails the failure leaves the pipeline
\* as an error and no fallback record is put in its place.
C15_QuickOneCallNoFallback ==
    /\ Cardinality(CallsOf("quick")) <= 1
    /\ pc \in {"structure", "done", "stored"} /\ Called("quick") =>
         Cardinality(CallsOf("quick")) = 1
    /\ \A i \in CallsOf("quick") :
         /\ calls[i][2] = "ok" =>
              /\ pc \in {"structure", "done", "stored"}
              /\ ~parent_response.has_artifact
              /\ parent_response.content = Str(calls[i][3][1])
         /\ calls[i][2] = "failed" =>
              /\ i = Len(calls)
              /\ pc = "raised"
              /\ error = "completion"
              /\ parent_response = NoResponse
              /\ structured_response = NoStructured

\* QuickResponder's completion call failed and the request ended in the error
C15_Witness ==
    /\ pc = "raised"
    /\ error = "completion"
    /\ Len(calls) >= 1
    /\ calls[Len(calls)] = <<"quick", "failed", <<>> >>
    /\ parent_response = NoResponse

----------------------------------------------------------------------------
(* C16, under SpecConcurrent *)

\* the entry of a stage in a log of completion calls
EntryOf(log, stage) == log[CHOOSE i \in 1..Len(log) : log[i][1] = stage]

\* the outcome of the stage's completion call, as the builders receive it
OutcomeOf(log, stage) ==
    IF EntryOf(log, stage)[2] = "failed" THEN Failed
    ELSE Returned(EntryOf(log, stage)[3])

\* the prose a stage's completion call returned
ProseOf(log, stage) == Str(EntryOf(log, stage)[3][1])

\* the outcome of structure_response's content call, if the log has one
ContentOutcome(log) ==
    IF \E i \in 1..Len(log) : log[i][1] = "content" /\ log[i][2] = "ok"
    THEN Returned(ProseOf(log, "content"))
    ELSE Failed

\* the result of a request that runs alone and receives the completion texts
\* of the log, stage by stage
AloneResult(log) ==
    LET analysis == generate_metadata(EntryOf(log, "analyze")[3])
        dm == decide_workflow(EntryOf(log, "decide")[3], analysis)
        d == ComponentDecision(EntryOf(log, "select")[3])
        builder == Dispatch(d.component_type, d.chart_type)
        artifact ==
          CASE builder = "chart" ->
                 construct_artifact(d.component_type, d.chart_type, OutcomeOf(log, "chart"))
            [] builder = "table" ->
                 construct_table_artifact(EntryOf(log, "table")[3]).result
            [] builder = "card" ->
                 construct_card_artifact(OutcomeOf(log, "card"))
        parent ==
          IF dm.selected_agent # Str("ParentAgent")
          THEN Response(ProseOf(log, "direct"), FALSE, ABSENT, MissingData, ABSENT)
          ELSE IF ~Truthy(dm.artifact_creation) \/ builder = "quick"
               THEN QuickResponse(ProseOf(log, "quick"))
               ELSE [artifact EXCEPT
                       !.content = Str(StrStrip(ProseOf(log, "intro")[2])),
                       !.summary = Str(StrStrip(ProseOf(log, "summary")[2]))]
    IN structure_response(parent, ContentOutcome(log))

\* the error of a request that runs alone and receives the log's outcomes
AloneError(log) ==
    IF log[Len(log)][2] = "failed" THEN "completion" ELSE "AttributeError"

\* an invocation with these locals has what it would have running alone
SameAsAlone(f) ==
    /\ f.pc \in {"done", "stored"} => f.structured_response = AloneResult(f.calls)
    /\ f.pc = "raised" => f.error = AloneError(f.calls)

\* C16: two invocations that interleave at their awaits share no mutable
\* state of the pipeline: each ends with the result (or the error) it would
\* have had running alone with the same completion texts.
C16_SameResultAsAlone ==
    /\ SameAsAlone(Frame(pc, metadata_analysis, decision_metadata, intro_content,
                         component_type, chart_type, build_parse, parent_response,
                         structured_response, calls, error, response_data))
    /\ SameAsAlone(other)

\* two requests overlapped (both user messages were stored before either
\* reply) and ended with different results, one of them an artifact built
\* after an empty intro content
C16_Witness ==
    /\ pc = "stored"
    /\ other.pc = "stored"
    /\ Len(messages) = 4
    /\ messages[2].role = "user"
    /\ structured_response.has_artifact
    /\ intro_content = Str("intro")
    /\ other.intro_content = Str("")
    /\ other.structured_response.has_artifact
    /\ structured_response.content # other.structured_response.content

----------------------------------------------------------------------------
(* C17, under SpecCancel *)

\* from the start of the analysis until the normalizer has returned
PipelineStages ==
    { "analyze", "decide", "process", "intro", "select", "chart", "table", "card",
      "summary", "quick", "direct", "structure", "done" }

\* the stored messages of role r
MessagesOf(r) == {i \in 1..Len(messages) : messages[i].role = r}

\* a user message is stored to which no reply is stored
Unanswered == Cardinality(MessagesOf("user")) > Cardinality(MessagesOf("assistant"))

\* C17 as stated: from the start of the analysis until the normalizer returns
\* the request writes nothing to the database, so a request cancelled before
\* its final result exists leaves nothing to reconcile.
C17_CancelLeavesNothing ==
    /\ pc \in PipelineStages => Len(messages) <= 1
    /\ pc = "cancelled" => ~Unanswered

\* C17 amended: from the start of the analysis until the normalizer returns
\* the request writes nothing to the database; the user's message was
\* committed before the analysis started, so a request cancelled before its
\* final result exists leaves exactly that message stored, without a reply.
C17_CancelLeavesUserMessage ==
    /\ pc \in PipelineStages => messages = <<UserMessage>>
    /\ pc = "cancelled" => messages = <<UserMessage>> /\ Unanswered

\* a request was cancelled while it awaited the builder's completion
C17_Witness ==
    /\ pc = "cancelled"
    /\ Called("select")
    /\ ~Called("table")
    /\ component_type = Table
    /\ messages = <<UserMessage>>

----------------------------------------------------------------------------
(* C18 *)

\* what the first selection round decided, read from its completion text
FirstSelect == calls[CHOOSE i \in CallsOf("select") : \A j \in CallsOf("select") : i <= j]

FirstDecision == ComponentDecision(FirstSelect[3])

\* the first selection round returned Chart with a missing, null or empty
\* subtype
ChartWithoutSubtype ==
    /\ CallsOf("select") # {}
    /\ FirstSelect[2] = "ok"
    /\ ~FirstDecision.raised
    /\ FirstDecision.component_type = Chart
    /\ ~Truthy(FirstDecision.chart_type)

\* the first selection round returned Chart with a subtype outside the allowed
\* set
ChartInvalidSubtype ==
    /\ CallsOf("select") # {}
    /\ FirstSelect[2] = "ok"
    /\ ~FirstDecision.raised
    /\ FirstDecision.component_type = Chart
    /\ Truthy(FirstDecision.chart_type)
    /\ FirstDecision.chart_type \notin {Str(t) : t \in AllowedSubtypes}

\* C18 as stated: when the first selection round returns Chart with a missing
\* or invalid subtype, the selector issues exactly one correction completion
\* call, and if the decision then has a valid subtype it is Chart with that
\* subtype and goes to the builder.
C18_OneCorrectionCall ==
    ChartWithoutSubtype \/ ChartInvalidSubtype =>
        /\ Cardinality(CallsOf("select")) = 2
        /\ chart_type \in {Str(t) : t \in AllowedSubtypes} =>
             component_type = Chart /\ (pc = "chart" \/ Called("chart"))

\* C18 amended: when the first selection round returns Chart with a missing
\* or invalid subtype, the selector issues no correction call: the first
\* round's decision is final, and a Chart decision with a missing, null or
\* empty subtype never reaches a builder: QuickResponder answers with
\* has_artifact = false.
C18_NoCorrectionCall ==
    ChartWithoutSubtype \/ ChartInvalidSubtype =>
        /\ Cardinality(CallsOf("select")) = 1
        /\ component_type = FirstDecision.component_type
        /\ chart_type = FirstDecision.chart_type
        /\ ChartWithoutSubtype =>
             /\ pc \in {"quick", "structure", "done", "stored", "raised"}
             /\ AfterSelect \subseteq {"quick"}
             /\ build_parse = "none"
             /\ pc \in {"done", "stored"} => ~structured_response.has_artifact

\* a Chart decision without subtype was answered by QuickResponder after one
\* selection call
C18_Witness ==
    /\ pc = "done"
    /\ ChartWithoutSubtype
    /\ FirstSelect[3] = <<"{", "ct=Chart", "}">>
    /\ Cardinality(CallsOf("select")) = 1
    /\ Called("quick")
    /\ ~structured_response.has_artifact

----------------------------------------------------------------------------
(* C19 *)

\* the keys of the spec's template for a component type: the envelope title
\* and style, then headers and rows for a table, data (with labels and values
\* in it) for a chart
TemplateKeys(ct) ==
    {"title", "style"} \cup
        CASE ct = Table -> {"headers", "rows"}
          [] ct = Chart -> {"data"}
          [] OTHER -> {}

\* the keys the builders of the code put in a payload
BuilderKeys(ct) ==
    {"type", "title", "labels", "data"} \cup
        CASE ct = Table -> {"headers", "rows"}
          [] ct = Chart -> {"style"}
          [] ct = Card -> {"metrics", "summary", "footer"}
          [] OTHER -> {}

\* C19 as stated: every payload a builder returns as a success has every key
\* of its template at the template's nesting path: title and style, headers
\* and rows for a table, data holding values for a chart.
C19_PayloadHasTemplateKeys ==
    parent_response.has_artifact =>
        /\ TemplateKeys(parent_response.component_type) \subseteq KeysOf(parent_response.data)
        /\ parent_response.component_type = Chart =>
             parent_response.data["data"][1] = "dict_values"

\* C19 amended: every payload a builder returns has exactly the keys the
\* builder writes: type, title, labels and data, plus headers and rows for a
\* table, style for a chart, metrics, summary and footer for a card.  A table
\* or card payload has no style and its data always holds values; a chart
\* payload's labels are a top-level key and its data is the completion's own
\* data member, which holds values for certain only when the completion
\* names none or the placeholder is used.
C19_PayloadHasBuilderKeys ==
    parent_response.has_artifact =>
        LET p == parent_response.data
            ct == parent_response.component_type
        IN /\ ct \in {Chart, Table, Card}
           /\ KeysOf(p) = BuilderKeys(ct)
           /\ ct \in {Table, Card} => p["data"][1] = "dict_values"
           /\ ct = Chart /\ build_parse # "object" =>
                p = generate_fallback_artifact(component_type, chart_type).data
           /\ ct = Chart /\ build_parse = "object" =>
                p["data"] \in { <<"dict_values", "default:values">>,
                                <<"dict_values", "gpt:values">>, <<"dict", "gpt:data">>,
                                <<"num", "gpt:data">>, <<"str", "gpt:data">> }

\* a table built from a complete completion text carries no style
C19_Witness ==
    /\ pc = "summary"
    /\ parent_response.has_artifact
    /\ parent_response.component_type = Table
    /\ build_parse = "object"
    /\ parent_response.data["headers"] = <<"list", "gpt:headers">>
    /\ "style" \notin KeysOf(parent_response.data)

----------------------------------------------------------------------------
(* C20 *)

\* decide_workflow's completion call returned a text with no parseable JSON
\* object in it
DecideUnparseable ==
    /\ CallsOf("decide") # {}
    /\ EntryOf(calls, "decide")[2] = "ok"
    /\ ExtractTry(EntryOf(calls, "decide")[3]).raised

\* C20: when the artifact-need analysis completion contains no parseable JSON
\* object, decide_workflow still returns a record, and in it requires_artifact
\* equals the upstream hint (what the prior analysis text indicates) and
\* analysis equals the prior analysis text.
C20_UnparseableFallsBackToHint ==
    DecideUnparseable =>
        /\ decision_metadata # NoDecision
        /\ decision_metadata.analysis = metadata_analysis
        /\ decision_metadata.artifact_creation = HasIndicator(metadata_analysis)

----------------------------------------------------------------------------
(* C21 *)

\* the place of a stage in the order of get_chat_response
Rank(stage) ==
    CASE stage = "analyze" -> 1
      [] stage = "decide" -> 2
      [] stage \in {"intro", "direct"} -> 3
      [] stage = "select" -> 4
      [] stage \in {"chart", "table", "card", "quick"} -> 5
      [] stage = "summary" -> 6
      [] stage = "content" -> 7

\* the selection call at position k succeeded and chose the builder
SelectedBuilder(k, builder) ==
    /\ calls[k] = <<"select", "ok", calls[k][3]>>
    /\ component_type # ABSENT
    /\ Dispatch(component_type, chart_type) = builder

\* the calls so far follow the order of the stages, each stage at most once
StagesInOrder ==
    /\ \A i, j \in 1..Len(calls) : i < j => Rank(calls[i][1]) < Rank(calls[j][1])
    /\ \A i \in 1..Len(calls) :
         /\ calls[i][1] \in Builders =>
              \E k \in 1..(i-1) : SelectedBuilder(k, calls[i][1])
         /\ calls[i][1] = "quick" =>
              \/ ~Called("select") /\ ~Truthy(decision_metadata.artifact_creation)
              \/ \E k \in 1..(i-1) : SelectedBuilder(k, "quick")
         /\ calls[i][1] = "content" =>
              \E k \in 1..(i-1) : calls[k][1] \in Builders

\* C21: within one request each stage runs at most once and in the order
\* analysis, decision, selection, build, normalization; a builder runs only
\* after a selection that succeeded and chose it, QuickResponder only when no
\* artifact is asked for or the selection chose no builder, and once the
\* normalizer has returned no stage runs again.
C21_StagesOnceInOrder ==
    [][ /\ StagesInOrder'
        /\ pc \in {"done", "stored", "raised"} => calls' = calls ]_vars

\* a request ran all the stages of the artifact path, the content call of the
\* normalizer included, and its reply was stored
C21_Witness ==
    /\ pc = "stored"
    /\ Len(calls) = 7
    /\ calls[5][1] = "chart"
    /\ calls[7][1] = "content"

----------------------------------------------------------------------------
(* C22 *)

\* C22 as stated: structuring a result issues no completion call.
C22_NormalizerNoCall == ~Called("content")

\* C22: the normalizer issues no completion call, except that for a result
\* with an artifact and no content it issues exactly one, for the content.
C22_NormalizerCallsOnlyForContent ==
    /\ Cardinality(CallsOf("content")) <= 1
    /\ Called("content") <=>
         /\ pc \in {"done", "stored"}
         /\ parent_response.has_artifact
         /\ ~Truthy(parent_response.content)

\* the normalizer was given an artifact without content and called for one
C22_Witness ==
    /\ pc = "done"
    /\ parent_response.has_artifact
    /\ parent_response.content = Str("")
    /\ calls[Len(calls)][1] = "content"

----------------------------------------------------------------------------
(* C23 *)

\* the text is one JSON object with only prose, whitespace and fence markers
\* before its first "{" and after its last "}"
SurroundedObject(s) ==
    /\ Find(s, "{") > 0
    /\ RFind(s, "}") > 0
    /\ IsObject(SubSeq(s, Find(s, "{"), RFind(s, "}")))
    /\ \A i \in 1..Len(s) :
         (i < Find(s, "{") \/ i > RFind(s, "}")) => s[i] \in {"p", "w", "F", "J"}

\* C23: for a text made of one valid JSON object surrounded by brace-free
\* prose, whitespace or fence markers, extract returns the parse of the
\* substring from the first "{" to the last "}".
C23_ExtractReturnsTheObject ==
    (ex_done /\ SurroundedObject(ex_text)) =>
        ex_result = [raised |-> FALSE,
                     val |-> JsonLoads(SubSeq(ex_text, Find(ex_text, "{"), RFind(ex_text, "}"))).val]

----------------------------------------------------------------------------
(* C24 *)

\* C24: every result the normalizer returns has content that is a string and
\* is not empty after trimming, whatever the completions were: on the text
\* path, on the artifact path, and when the normalizer generates the content.
C24_ContentNeverEmpty ==
    pc \in {"done", "stored"} =>
        /\ structured_response.content[1] = "str"
        /\ StrStrip(structured_response.content[2]) # ""

\* the normalizer asked for the content of an artifact, was given an empty
\* completion and put its default sentence in
C24_Witness ==
    /\ pc = "done"
    /\ structured_response.has_artifact
    /\ calls[Len(calls)] = <<"content", "ok", <<"">> >>
    /\ structured_response.content = Str("Let me help you visualize this data.")

----------------------------------------------------------------------------
(* C25 *)

\* the component decision came back and is no JSON at all, or is a JSON
\* object without component_type
SelectDefaulted ==
    /\ CallsOf("select") # {}
    /\ FirstSelect[2] = "ok"
    /\ \/ JsonLoads(FirstSelect[3]).kind = "error"
       \/ /\ JsonLoads(FirstSelect[3]).kind = "object"
          /\ Get(JsonLoads(FirstSelect[3]).val, "component_type", ABSENT) = ABSENT

----------------------------------------------------------------------------
(* C26 *)

\* the Artifact rows of a message
ArtifactsOf(id) == {i \in 1..Len(artifacts) : artifacts[i].message_id = id}

----------------------------------------------------------------------------
(* C27 *)

\* C27: with Redis available, a Gmail message gets at most one chat response
\* and at most one reply email, over any sequence or interleaving of webhook
\* deliveries for it, deliveries that fail part-way included.
C27_AtMostOneResponsePerMessage ==
    /\ chat_responses <= 1
    /\ reply_emails <= 1

----------------------------------------------------------------------------
(* C28 *)

\* C28: after clear_tokens has succeeded, get_valid_credentials returns no
\* credentials until store_tokens is called again.
C28_NoCredentialsAfterClear ==
    tk_cleared => tk_credentials \in {NotCalled, NoToken}

----------------------------------------------------------------------------
(* C29 *)

----------------------------------------------------------------------------
(* C30 *)

\* what generate_unique_title has returned is as promised
TitleReturnedRight ==
    /\ tt_calls <= tt_max_attempts
    /\ tt_result.returned =>
         /\ tt_result.title \notin tt_existing
         /\ tt_result.is_fallback <=>
              /\ Len(tt_used) = tt_max_attempts
              /\ \A i \in 1..Len(tt_used) : tt_used[i] \in tt_existing

\* C30: generate_unique_title always terminates; the title it returns is not
\* in existing_titles; it issues at most max_attempts title completion calls;
\* and is_fallback is true exactly when all max_attempts generated titles
\* collided with existing ones.
C30_UniqueTitleTerminates ==
    /\ [](TitleReturnedRight)
    /\ <>(tt_result.returned)

\* three generated titles collided, the base title and its first numbered
\* form were taken too, and the second numbered form was returned
C30_Witness ==
    /\ tt_result = [title |-> NumberedTitle(2), is_fallback |-> TRUE, returned |-> TRUE]
    /\ tt_max_attempts = DefaultMaxAttempts
    /\ tt_calls = DefaultMaxAttempts
    /\ Len(tt_used) = DefaultMaxAttempts
    /\ {BaseTitle, NumberedTitle(1)} \subseteq tt_existing

====
